---- MODULE Spec2Model ----
(***************************************************************************)
(* A model of the realtime synchronisation layer of streamdeck-trackaudio: *)
(* the TrackAudioManager websocket connection manager                      *)
(* (src/src/trackAudioManager.ts), the inbound message type guards         *)
(* (src/unnamed/part_002), the station-status indicator lifecycle          *)
(* (src/unnamed/part_002) and the subscriber registry / dispatch router    *)
(* those call into.                                                        *)
(*                                                                         *)
(* One step of the model is one run-to-completion handler of the Node.js   *)
(* event loop: a host call (connect, disconnect, send), a websocket event  *)
(* ("open", "error", "close", "message"), a timer expiry or a Stream Deck  *)
(* lifecycle event.  The websocket itself is the `ws` library: its         *)
(* readyState and the order in which it delivers events are the            *)
(* environment of the manager.                                             *)
(***************************************************************************)
EXTENDS Naturals, Integers, Sequences, FiniteSets, TLC

(***************************************************************************)
(* Bounds of the model.                                                    *)
(***************************************************************************)
\* Websocket objects that may be alive (not yet closed, or still referenced) at once.
MaxSockets == 2
\* Timer handles that may be referenced or pending at once.
MaxTimers == 2
\* Outbound messages submitted to send() in one run.
MaxMsgs == 2

\* null, for this.socket and this.reconnectTimer
Null == 0

SocketIds == 1 .. MaxSockets
TimerIds == 1 .. MaxTimers

\* setTimeout delay of the reconnect timer, in milliseconds
reconnectInterval == 5000

\* Controller handles (Stream Deck action ids) of the keys and of the main-volume dial.
Handles == {"h1", "h2", "h3", "h4"}
\* The handles that belong to station-status indicators on the deck.
StationHandles == {"h1", "h2"}
\* The handles that belong to connection-status indicators.
StatusHandles == {"h3"}
\* The handles that belong to main-volume dials.
VolumeHandles == {"h4"}
\* The handles that belong to station-volume dials.
DialHandles == {"d1", "d2"}
Indicators == Handles \cup DialHandles
\* Station callsigns used as registry keys.
Callsigns == {"DAL123", "UAL456"}
\* The connection-global registry key.
GLOBAL == "global"
Keys == Callsigns \cup {GLOBAL}

VARIABLES
    socket,          \* this.socket: Null or the id of a websocket
    reconnectTimer,  \* this.reconnectTimer: Null or a timer handle (possibly already fired)
    readyState,      \* readyState of every websocket; "NONE" = no such object
    dueError,        \* Null or the websocket whose "error" event is emitted next (its
                     \* handshake was aborted by close(): process.nextTick)
    dueClose,        \* Null or the websocket whose "close" event is emitted next (in the
                     \* same tick as its "error" event)
    timers,          \* the runtime's pending timeouts, as [id, delay] records
    emitted,         \* events the manager emitted during the last step
    raised,          \* TRUE iff the last step's handler threw
    wire,            \* ids of the host's numbered messages handed to socket.send, ever
    submittedClosed, \* ids of the messages send() was called with while not open, ever
    nextMsg,         \* number of messages submitted so far
    registry,        \* subscriber registry: set of <<key, handle>> entries
    visible,         \* indicators between willAppear and willDisappear
    calls,           \* updateState calls each handle received during the last step
    resets,          \* handles whose reset() ran during the last step
    opened,          \* websockets whose "open" event was delivered and that have not closed
    createdBy,       \* who called the connect() that created this.socket: "connect" (a
                     \* call from outside the manager), "timer" (the reconnect timer's
                     \* callback) or "none"
    sent,            \* the protocol commands handed to socket.send during the last step,
                     \* as serialized
    statusCtl,       \* the TrackAudioStatusController of every connection-status indicator
    volumeCtl,       \* the MainVolumeController of every main-volume dial, with the
                     \* pending timeouts of its debounced refreshDisplay
    configured,      \* the registry key of each indicator's most recently received
                     \* settings; "" before its first willAppear
    debouncedUpdate, \* the pending call of StationVolume.debouncedUpdate, or NoCall
    lastLifecycle,   \* the lifecycle event the manager emitted most recently, or "none"
    atisCtl,         \* the AtisLetterController of every ATIS-letter indicator, with
                     \* its pending timeouts and what it drew last
    intervalId,      \* VatsimManager.intervalId: Null or an interval handle
    intervals,       \* the runtime's active intervals, by handle
    fetches,         \* number of fetchData() calls awaiting their response
    keyDownStart,    \* _keyDownStart of each singleton action class
    downAt,          \* for each button, the time of its most recent key-down that
                     \* has had no key-up yet, or Null
    now,             \* Date.now(), in units of the clock
    receiver,        \* for each websocket, what its receiver does with the frames that
                     \* arrive: "none" (no connection), "reading" (frames are delivered
                     \* as "message" events), "ended" (the connection failed or the peer
                     \* ended it: no further frame) or "stalled" (a "message" handler
                     \* threw: the receiver never resumes and never finishes)
    exited,          \* TRUE iff an uncaught exception has ended the process
    op               \* the last step: its name, the websocket it concerns (for a host
                     \* call: this.socket before the call), that websocket's readyState
                     \* and the pending timers before the step, and the step's input

vars == <<socket, reconnectTimer, readyState, dueError, dueClose, timers, emitted, raised,
          wire, submittedClosed, nextMsg, registry, visible, calls, resets, opened,
          createdBy, sent, statusCtl, volumeCtl, configured, debouncedUpdate,
          lastLifecycle, atisCtl, intervalId, intervals, fetches, keyDownStart, downAt,
          now, receiver, exited, op>>

connVars == <<socket, reconnectTimer, readyState, dueError, dueClose, timers, opened,
              createdBy>>
sendVars == <<wire, submittedClosed, nextMsg>>
regVars == <<registry, visible>>
uiVars == <<statusCtl, volumeCtl, configured, debouncedUpdate>>
pollVars == <<intervalId, intervals, fetches>>
keyVars == <<keyDownStart, downAt, now>>
procVars == <<receiver, exited>>
extVars == <<lastLifecycle, atisCtl, pollVars, keyVars, procVars>>

(***************************************************************************)
(* The websocket transport (library `ws`), as the manager observes it.     *)
(***************************************************************************)
ReadyStates == {"NONE", "CONNECTING", "OPEN", "CLOSING", "CLOSED"}

\* A websocket that is CLOSED and no longer referenced by this.socket delivers
\* no further event and is unreachable: its id may name a new object.
Collect(rs, cur) ==
    [s \in SocketIds |-> IF rs[s] = "CLOSED" /\ s # cur THEN "NONE" ELSE rs[s]]

FreeSockets(rs) == {s \in SocketIds : rs[s] = "NONE"}

\* new WebSocket(url): the fresh object gets the smallest unused id.
NewSocket(rs) == CHOOSE s \in FreeSockets(rs) : \A u \in FreeSockets(rs) : s <= u

\* WebSocket.close(): a connecting socket aborts its handshake (its "error" and
\* "close" events are emitted on the next tick), an open one starts the closing
\* handshake (its "close" event follows later); closing or closed sockets are left
\* alone.
CloseSocket(rs, s) ==
    IF rs[s] \in {"CONNECTING", "OPEN"} THEN [rs EXCEPT ![s] = "CLOSING"] ELSE rs

\* Timer handles referenced by the runtime or by the manager.
UsedTimers == {t.id : t \in timers} \cup {reconnectTimer}
FreeTimers == TimerIds \ UsedTimers

\* setTimeout(): the fresh handle gets the smallest unused id.
NewTimer == CHOOSE t \in FreeTimers : \A u \in FreeTimers : t <= u

\* clearTimeout(handle) on the pending set tm.
ClearTimeout(tm, handle) == {t \in tm : t.id # handle}

\* The process has not been ended by an uncaught exception.
Running == ~exited

\* No websocket event is due in the current tick: the event loop is free to run a
\* host call, a timer or another I/O event.
NoDue == dueError = Null /\ dueClose = Null

\* socket.readyState === WebSocket.OPEN, guarded by the null check
IsOpen == socket # Null /\ readyState[socket] = "OPEN"

\* The connection state of the data model, as read off the socket.
ConnectionState ==
    IF socket = Null THEN "Disconnected"
    ELSE IF readyState[socket] = "OPEN" THEN "Connected"
    ELSE IF readyState[socket] = "CONNECTING" THEN "Connecting"
    ELSE "Disconnected"

(***************************************************************************)
(* TrackAudioManager                                                       *)
(***************************************************************************)
\* connect() without its already-connected guard: always opens another websocket.
connect_unguarded(tm) ==
    /\ FreeSockets(Collect(readyState, Null)) # {}
    /\ timers' = ClearTimeout(tm, reconnectTimer)
    /\ reconnectTimer' = Null
    /\ socket' = NewSocket(Collect(readyState, Null))
    /\ readyState' = [Collect(readyState, Null) EXCEPT
                        ![NewSocket(Collect(readyState, Null))] = "CONNECTING"]
    /\ UNCHANGED <<dueError, dueClose>>

\* connect(), run with tm as the runtime's pending timers at the time of the call.
connect(tm) ==
    IF socket # Null /\ readyState[socket] # "CLOSED"
    THEN /\ timers' = tm
         /\ UNCHANGED <<socket, reconnectTimer, readyState, dueError, dueClose>>
    ELSE LET rs == [s \in SocketIds |-> IF s = socket THEN "NONE" ELSE readyState[s]]
         IN /\ FreeSockets(rs) # {}
            /\ timers' = ClearTimeout(tm, reconnectTimer)
            /\ reconnectTimer' = Null
            /\ socket' = NewSocket(rs)
            /\ readyState' = [rs EXCEPT ![NewSocket(rs)] = "CONNECTING"]
            /\ UNCHANGED <<dueError, dueClose>>

\* reconnect() without its already-scheduled guard: always arms a timer.
reconnect_unguarded ==
    /\ FreeTimers # {}
    /\ reconnectTimer' = NewTimer
    /\ timers' = timers \cup {[id |-> NewTimer, delay |-> reconnectInterval]}

\* reconnect(): arm the reconnect timer unless the field already holds a handle.
reconnect ==
    IF reconnectTimer # Null
    THEN UNCHANGED <<reconnectTimer, timers>>
    ELSE /\ FreeTimers # {}
         /\ reconnectTimer' = NewTimer
         /\ timers' = timers \cup {[id |-> NewTimer, delay |-> reconnectInterval]}

\* disconnect()
disconnect ==
    /\ IF socket # Null
       THEN /\ readyState' = Collect(CloseSocket(readyState, socket), Null)
            /\ dueError' = IF readyState[socket] = "CONNECTING" THEN socket ELSE dueError
            /\ socket' = Null
       ELSE UNCHANGED <<socket, readyState, dueError>>
    /\ UNCHANGED dueClose
    /\ timers' = ClearTimeout(timers, reconnectTimer)
    /\ reconnectTimer' = Null

Quiet ==
    /\ emitted' = <<>>
    /\ raised' = FALSE
    /\ calls' = [h \in Handles |-> <<>>]
    /\ resets' = {}
    /\ sent' = <<>>

OpOf(name, s, arg) ==
    [name |-> name, sock |-> s,
     pre |-> IF s = Null THEN "NONE" ELSE readyState[s], pending |-> timers, arg |-> arg]

\* The host calls connect().
Connect ==
    /\ NoDue
    /\ connect(timers)
    /\ createdBy' = IF readyState' = readyState THEN createdBy ELSE "connect"
    /\ UNCHANGED opened
    /\ Quiet
    /\ UNCHANGED extVars
    /\ Running
    /\ op' = OpOf("connect", socket, "")
    /\ UNCHANGED <<sendVars, regVars, uiVars>>

\* The host calls disconnect().
Disconnect ==
    /\ NoDue
    /\ disconnect
    /\ createdBy' = "none"
    /\ UNCHANGED opened
    /\ Quiet
    /\ UNCHANGED extVars
    /\ Running
    /\ op' = OpOf("disconnect", socket, "")
    /\ UNCHANGED <<sendVars, regVars, uiVars>>

\* The reconnect timer expires: its callback calls connect().
ReconnectTimerFires ==
    \E t \in timers :
        /\ NoDue
        /\ connect(timers \ {t})
        /\ createdBy' = IF readyState' = readyState THEN createdBy ELSE "timer"
        /\ UNCHANGED opened
        /\ Quiet
        /\ UNCHANGED extVars
        /\ Running
        /\ op' = OpOf("timer", socket, "")
        /\ UNCHANGED <<sendVars, regVars, uiVars>>

\* send() without its readyState guard: hands the data over whatever the state.
send_unguarded(data) == wire' = wire \cup {data}

\* send(data): hand the serialized data to the socket only when it is open.
send(data) ==
    IF socket # Null /\ readyState[socket] = "OPEN"
    THEN wire' = wire \cup {data}
    ELSE wire' = wire

\* The host submits its next outbound message.
Send ==
    /\ NoDue
    /\ nextMsg < MaxMsgs
    /\ send(nextMsg + 1)
    /\ nextMsg' = nextMsg + 1
    /\ submittedClosed' = IF IsOpen THEN submittedClosed
                          ELSE submittedClosed \cup {nextMsg + 1}
    /\ Quiet
    /\ UNCHANGED extVars
    /\ Running
    /\ op' = OpOf("send", socket, "")
    /\ UNCHANGED <<connVars, regVars, uiVars>>

(***************************************************************************)
(* Outbound commands                                                       *)
(***************************************************************************)
\* Station frequencies, in Hz.
Frequencies == {121500000, 118300000}

\* The values a tx, rx or xc member of a SetStationState object may hold: a boolean,
\* the string "toggle" or undefined, each with the text String(value) gives.
JsTrue == [kind |-> "boolean", text |-> "true"]
JsFalse == [kind |-> "boolean", text |-> "false"]
JsToggle == [kind |-> "string", text |-> "toggle"]
JsUndefined == [kind |-> "undefined", text |-> "undefined"]

\* The tri-state choices of the command builder.
Choices == {"SetTrue", "SetFalse", "Toggle", "Unspecified"}

JsOf(choice) ==
    IF choice = "SetTrue" THEN JsTrue
    ELSE IF choice = "SetFalse" THEN JsFalse
    ELSE IF choice = "Toggle" THEN JsToggle
    ELSE JsUndefined

\* buildSetStationState(frequencyHz, {tx, rx, xc}): the SetStationState object.
buildSetStationState(frequency, tx, rx, xc) ==
    [type |-> "kSetStationState",
     value |-> [frequency |-> frequency, tx |-> JsOf(tx), rx |-> JsOf(rx), xc |-> JsOf(xc)]]

\* buildGetStationStates(): the GetStationStates object.
buildGetStationStates == [type |-> "kGetStationStates"]

\* JSON text of a string: the string in double quotes.
Quote(str) == "\"" \o str \o "\""

\* A JSON.stringify that writes null for an undefined member.
JSONmember_null(name, v) ==
    <<<<name, IF v.kind = "undefined" THEN "null"
              ELSE IF v.kind = "string" THEN Quote(v.text) ELSE v.text>>>>

\* The JSON text of one object member: none when the value is undefined, the quoted
\* string for a string, the literal for a boolean.
JSONmember(name, v) ==
    IF v.kind = "undefined" THEN <<>>
    ELSE <<<<name, IF v.kind = "string" THEN Quote(v.text) ELSE v.text>>>>

\* JSON.stringify(data) of an outgoing message: the members of the text in order, each
\* as its path and the JSON text of its value.
JSONstringify(data) ==
    <<<<"type", Quote(data.type)>>>>
    \o (IF "value" \in DOMAIN data
        THEN <<<<"value.frequency", ToString(data.value.frequency)>>>>
             \o JSONmember("value.tx", data.value.tx)
             \o JSONmember("value.rx", data.value.rx)
             \o JSONmember("value.xc", data.value.xc)
        ELSE <<>>)

\* send(data) called while the websockets' states are rs: what socket.send receives.
socketSend(rs, data) ==
    IF socket # Null /\ rs[socket] = "OPEN" THEN <<JSONstringify(data)>> ELSE <<>>

\* isConnected(), read while the websockets' states are rs.
isConnected(rs) == socket # Null /\ rs[socket] = "OPEN"

\* refreshStationStates(), called while the websockets' states are rs.
refreshStationStates(rs) == socketSend(rs, buildGetStationStates)

(***************************************************************************)
(* Inbound frames and the message type guards                              *)
(***************************************************************************)
KnownTags == {"kFrequencyStateUpdate", "kStationStates", "kStationStateUpdate",
              "kTxBegin", "kTxEnd", "kRxBegin", "kRxEnd"}
FlaggedTags == {"kFrequencyStateUpdate", "kStationStates", "kStationStateUpdate"}
UnknownTag == "kVoiceConnectedState"

\* rx, tx, xc, headset combinations carried by the frames of the model
FlagChoices == {<<TRUE, FALSE, FALSE, TRUE>>}
NoFlags == <<FALSE, FALSE, FALSE, FALSE>>

FrameOf(json, type, callsign, f) ==
    [json |-> json, type |-> type, callsign |-> callsign,
     rx |-> f[1], tx |-> f[2], xc |-> f[3], headset |-> f[4]]

\* The text of a frame: either not JSON at all, or the JSON text of an object with a
\* type tag and a value.  A kStationStates frame lists one station and a
\* kFrequencyStateUpdate frame one radio, whose rx/tx/xc flags stand for its
\* membership of the rx, tx and xc lists.
MalformedFrame == FrameOf(FALSE, "", "", NoFlags)
Frames ==
    {MalformedFrame}
    \cup {FrameOf(TRUE, t, c, f) : t \in FlaggedTags, c \in Callsigns, f \in FlagChoices}
    \cup {FrameOf(TRUE, t, c, NoFlags) :
            t \in (KnownTags \ FlaggedTags) \cup {UnknownTag}, c \in Callsigns}

\* JSON.parse(message): throws on text that is not JSON, else yields the object.
JSONparse(message) ==
    IF message.json
    THEN [ok |-> TRUE,
          data |-> [type |-> message.type,
                    value |-> [callsign |-> message.callsign, rx |-> message.rx,
                               tx |-> message.tx, xc |-> message.xc,
                               headset |-> message.headset]]]
    ELSE [ok |-> FALSE,
          data |-> [type |-> "", value |-> [callsign |-> "", rx |-> FALSE, tx |-> FALSE,
                                            xc |-> FALSE, headset |-> FALSE]]]

isFrequencyStateUpdate(message) == message.type = "kFrequencyStateUpdate"
isStationStateUpdate(message) == message.type = "kStationStateUpdate"
isStationStates(message) == message.type = "kStationStates"
isRxBegin(message) == message.type = "kRxBegin"
isRxEnd(message) == message.type = "kRxEnd"
isTxBegin(message) == message.type = "kTxBegin"
\* A type guard that accepts every message.
isTxEnd_any(message) == TRUE
isTxEnd(message) == message.type = "kTxEnd"

\* An emitted event: its name and the decoded payload it carries.
Event(name, value) ==
    [name |-> name, callsign |-> value.callsign, rx |-> value.rx, tx |-> value.tx,
     xc |-> value.xc, headset |-> value.headset]
NoValue == [callsign |-> "", rx |-> FALSE, tx |-> FALSE, xc |-> FALSE, headset |-> FALSE]
LifecycleEvent(name) == Event(name, NoValue)

\* processMessage(message): the events it emits, or that it threw.
processMessage(message) ==
    LET parsed == JSONparse(message)
        data == parsed.data
    IN IF ~parsed.ok THEN [threw |-> TRUE, events |-> <<>>]
       ELSE IF isFrequencyStateUpdate(data)
            THEN [threw |-> FALSE, events |-> <<Event("frequencyUpdate", data.value)>>]
       ELSE IF isRxBegin(data)
            THEN [threw |-> FALSE, events |-> <<Event("rxBegin", data.value)>>]
       ELSE IF isRxEnd(data)
            THEN [threw |-> FALSE, events |-> <<Event("rxEnd", data.value)>>]
       ELSE IF isTxBegin(data)
            THEN [threw |-> FALSE, events |-> <<Event("txBegin", data.value)>>]
       ELSE IF isTxEnd(data)
            THEN [threw |-> FALSE, events |-> <<Event("txEnd", data.value)>>]
       ELSE [threw |-> FALSE, events |-> <<>>]

(***************************************************************************)
(* Subscriber registry and dispatch router                                 *)
(***************************************************************************)
\* The keys handle h has an entry under.
KeysOf(reg, h) == {k \in Keys : <<k, h>> \in reg}

\* register(key, handle)
register(reg, key, h) == reg \cup {<<key, h>>}

\* An unregister that only removes the handle's entry under the global key.
unregister_globalOnly(reg, h) == {e \in reg : ~(e[2] = h /\ e[1] = GLOBAL)}

\* unregister(handle)
unregister(reg, h) == {e \in reg : e[2] # h}

\* An update that keeps the handle's previous entries.
update_keepsOld(reg, h, newKey) == register(reg, newKey, h)

\* update(handle, newKey)
update(reg, h, newKey) == register(unregister(reg, h), newKey, h)

\* A broadcast that ignores the key.
broadcast_all(reg, key) == {h \in Handles : \E k \in Keys : <<k, h>> \in reg}

\* broadcast(key, event): the handles whose updateState(event) is invoked, once each.
broadcast(reg, key) == {h \in Handles : <<key, h>> \in reg}

\* resetAll(): the handles whose reset() is invoked.
resetAll(reg) == {h \in Handles : \E k \in Keys : <<k, h>> \in reg}

\* The broadcasts the router makes for one event, in order.
Dispatch(ev) ==
    IF ev.name \in {"connected", "disconnected"}
    THEN <<[key |-> GLOBAL, event |-> ev]>>
    ELSE IF ev.name = "frequencyUpdate"
    THEN <<[key |-> ev.callsign, event |-> ev], [key |-> GLOBAL, event |-> ev]>>
    ELSE <<[key |-> ev.callsign, event |-> ev]>>

RECURSIVE DispatchAll(_)
DispatchAll(evs) ==
    IF evs = <<>> THEN <<>> ELSE Dispatch(Head(evs)) \o DispatchAll(Tail(evs))

\* The updateState calls handle h receives from the broadcasts bs, in order.
RECURSIVE CallsOf(_, _, _)
CallsOf(bs, reg, h) ==
    IF bs = <<>> THEN <<>>
    ELSE (IF h \in broadcast(reg, Head(bs).key) THEN <<Head(bs).event>> ELSE <<>>)
         \o CallsOf(Tail(bs), reg, h)

\* The listeners of the manager's events run synchronously inside emit().
Route(evs) ==
    /\ calls' = [h \in Handles |-> CallsOf(DispatchAll(evs), registry, h)]
    /\ resets' = IF \E i \in 1 .. Len(evs) : evs[i].name = "disconnected"
                 THEN resetAll(registry) ELSE {}

(***************************************************************************)
(* Controllers                                                             *)
(***************************************************************************)
\* TrackAudioStatusController.refreshImage(): the image for the current flags.
TrackAudioStatusController_refreshImage(c) ==
    [c EXCEPT !.image = IF c.isVoiceConnected THEN "voiceConnected"
                        ELSE IF c.isConnected THEN "connected" ELSE "notConnected"]

\* new TrackAudioStatusController(action, settings)
NewTrackAudioStatusController ==
    TrackAudioStatusController_refreshImage(
        [isConnected |-> FALSE, isVoiceConnected |-> FALSE, image |-> ""])

\* TrackAudioStatusController: set isConnected(newValue)
TrackAudioStatusController_isConnected(c, newValue) ==
    IF c.isConnected = newValue THEN c
    ELSE TrackAudioStatusController_refreshImage(
             [c EXCEPT !.isConnected = newValue,
                       !.isVoiceConnected = IF newValue THEN @ ELSE FALSE])

\* TrackAudioStatusController: set isVoiceConnected(newValue)
TrackAudioStatusController_isVoiceConnected(c, newValue) ==
    IF c.isVoiceConnected = newValue THEN c
    ELSE TrackAudioStatusController_refreshImage([c EXCEPT !.isVoiceConnected = newValue])

\* A reset that only clears the connected flag.
TrackAudioStatusController_reset_connectionOnly(c) ==
    TrackAudioStatusController_isConnected(c, FALSE)

\* TrackAudioStatusController.reset()
TrackAudioStatusController_reset(c) ==
    TrackAudioStatusController_isVoiceConnected(
        TrackAudioStatusController_isConnected(c, FALSE), FALSE)

\* The output volumes the engine reports.
Volumes == {50, 100}
\* MainVolumeController._volume as initialised
DefaultVolume == 100

\* No controller: the fields as initialised, refreshDisplay never called.
NoMainVolumeController ==
    [isConnected |-> FALSE, volume |-> DefaultVolume, pending |-> 0, drawn |-> FALSE,
     shown |-> [isConnected |-> FALSE, volume |-> 0]]

\* A debounce that sets a new timeout without clearing the pending one.
refreshDisplay_noClear(c) == [c EXCEPT !.pending = IF @ = 0 THEN 1 ELSE 2]

\* refreshDisplay(), the debounced function, is called: the pending timeout, if any,
\* is cleared and a new one is set.
refreshDisplay(c) == [c EXCEPT !.pending = 1]

\* refreshTitle() and refreshImage() run: the connection state and the volume drawn
\* (volume 0: nothing drawn yet).
Refresh(c) ==
    [c EXCEPT !.drawn = TRUE,
              !.shown = [isConnected |-> c.isConnected, volume |-> c.volume]]

\* The controller as a handler finds it: nothing drawn by this handler yet.
Stale(c) == [c EXCEPT !.drawn = FALSE]

\* new MainVolumeController(action, settings): the constructor sets the settings.
NewMainVolumeController == refreshDisplay(NoMainVolumeController)

\* MainVolumeController: set volume(newValue)
MainVolumeController_volume(c, newValue) ==
    IF c.volume = newValue THEN c ELSE Refresh([c EXCEPT !.volume = newValue])

\* MainVolumeController: set settings(newValue)
MainVolumeController_settings(c) == refreshDisplay(c)

\* An isConnected setter that stores the value without calling refreshDisplay.
MainVolumeController_isConnected_noRefresh(c, newValue) ==
    [c EXCEPT !.isConnected = newValue]

\* MainVolumeController: set isConnected(newValue)
MainVolumeController_isConnected(c, newValue) ==
    IF c.isConnected = newValue THEN c
    ELSE refreshDisplay([c EXCEPT !.isConnected = newValue])

\* A reset that leaves the volume as it is.
MainVolumeController_reset_keepsVolume(c) ==
    refreshDisplay([c EXCEPT !.isConnected = FALSE])

\* MainVolumeController.reset()
MainVolumeController_reset(c) ==
    refreshDisplay([c EXCEPT !.isConnected = FALSE, !.volume = DefaultVolume])

\* updateState(event) of a controller registered under the global key: a
\* connection-status event sets its isConnected.
IsStatusEvent(ev) == ev.name \in {"connected", "disconnected"}

RECURSIVE StatusUpdateState(_, _)
StatusUpdateState(c, evs) ==
    IF evs = <<>> THEN c
    ELSE StatusUpdateState(
             IF IsStatusEvent(Head(evs))
             THEN TrackAudioStatusController_isConnected(c, Head(evs).name = "connected")
             ELSE c,
             Tail(evs))

RECURSIVE VolumeUpdateState(_, _)
VolumeUpdateState(c, evs) ==
    IF evs = <<>> THEN c
    ELSE VolumeUpdateState(
             IF IsStatusEvent(Head(evs))
             THEN MainVolumeController_isConnected(c, Head(evs).name = "connected")
             ELSE c,
             Tail(evs))

\* The connection-status event for the state the manager reports.
StatusEvent(connected) == LifecycleEvent(IF connected THEN "connected" ELSE "disconnected")

\* The controllers take the updateState and reset calls of the step.
Deliver ==
    /\ statusCtl' = [h \in StatusHandles |->
                       LET c == StatusUpdateState(statusCtl[h], calls'[h])
                       IN IF h \in resets' THEN TrackAudioStatusController_reset(c) ELSE c]
    /\ volumeCtl' = [h \in VolumeHandles |->
                       IF calls'[h] = <<>> /\ h \notin resets' THEN volumeCtl[h]
                       ELSE LET c == VolumeUpdateState(Stale(volumeCtl[h]), calls'[h])
                            IN IF h \in resets' THEN MainVolumeController_reset(c) ELSE c]

\* handleConnected without the state refresh request.
handleConnected_noRefresh(rs) ==
    [broadcast |-> <<StatusEvent(isConnected(rs))>>, sent |-> <<>>]

\* handleConnected(), run while the websockets' states are rs: the connection state it
\* hands to the indicators and what it sends.
handleConnected(rs) ==
    [broadcast |-> <<StatusEvent(isConnected(rs))>>, sent |-> refreshStationStates(rs)]

(***************************************************************************)
(* Websocket events                                                        *)
(***************************************************************************)
\* "open": the handshake of websocket s succeeded.
SocketOpen ==
    \E s \in SocketIds :
        /\ NoDue
        /\ readyState[s] = "CONNECTING"
        /\ readyState' = [readyState EXCEPT ![s] = "OPEN"]
        /\ opened' = opened \cup {s}
        /\ emitted' = <<LifecycleEvent("connected")>>
        /\ calls' = [h \in Handles |->
                        CallsOf(DispatchAll(handleConnected(readyState').broadcast),
                                registry, h)]
        /\ resets' = {}
        /\ Deliver
        /\ sent' = handleConnected(readyState').sent
        /\ raised' = FALSE
        /\ lastLifecycle' = "connected"
        /\ receiver' = [receiver EXCEPT ![s] = "reading"]
        /\ UNCHANGED <<atisCtl, pollVars, keyVars, exited>>
        /\ Running
        /\ op' = OpOf("open", s, "")
        /\ UNCHANGED <<socket, reconnectTimer, dueError, dueClose, timers, createdBy,
                       sendVars, regVars, configured, debouncedUpdate>>

\* The error codes the "error" handler may see on websocket s.
ErrorCodes(s) ==
    IF dueError = s THEN {"ABORTED"}
    ELSE IF readyState[s] = "CONNECTING" THEN {"ECONNREFUSED", "ETIMEDOUT"}
    ELSE {"WS_ERR_INVALID_OPCODE"}

\* "error": websocket s failed.  A refused or failed handshake, and a handshake
\* aborted by close(), emit "error" and then "close" in the same tick; a protocol
\* error found by the receiver while it reads, on an open websocket or on one that
\* is closing after close(), emits "error", ends the reading and starts the closing
\* handshake, whose "close" event follows in a later tick.
SocketError ==
    \E s \in SocketIds :
        /\ \/ NoDue /\ readyState[s] = "CONNECTING"
           \/ NoDue /\ readyState[s] \in {"OPEN", "CLOSING"} /\ receiver[s] = "reading"
           \/ dueError = s
        /\ \E code \in ErrorCodes(s) :
            /\ readyState' = [readyState EXCEPT ![s] = "CLOSING"]
            /\ dueError' = Null
            /\ dueClose' = IF receiver[s] = "reading" THEN Null ELSE s
            /\ reconnect
            /\ UNCHANGED opened
            /\ Quiet
            /\ receiver' = [receiver EXCEPT ![s] = IF @ = "reading" THEN "ended" ELSE @]
            /\ UNCHANGED <<lastLifecycle, atisCtl, pollVars, keyVars, exited>>
            /\ Running
            /\ op' = OpOf("error", s, code)
            /\ UNCHANGED <<socket, createdBy, sendVars, regVars, uiVars>>

\* "close": websocket s is closed.  The event waits for the receiver to finish, which
\* a stalled receiver never does.
SocketClose ==
    \E s \in SocketIds :
        /\ \/ NoDue /\ readyState[s] \in {"OPEN", "CLOSING"} /\ receiver[s] # "stalled"
           \/ dueClose = s
        /\ readyState' = Collect([readyState EXCEPT ![s] = "CLOSED"], socket)
        /\ opened' = opened \ {s}
        /\ dueClose' = Null
        /\ emitted' = <<LifecycleEvent("disconnected")>>
        /\ Route(<<LifecycleEvent("disconnected")>>)
        /\ Deliver
        /\ sent' = <<>>
        /\ reconnect
        /\ raised' = FALSE
        /\ lastLifecycle' = "disconnected"
        /\ receiver' = [receiver EXCEPT ![s] = "none"]
        /\ UNCHANGED <<atisCtl, pollVars, keyVars, exited>>
        /\ Running
        /\ op' = OpOf("close", s, [status |-> statusCtl, volume |-> volumeCtl])
        /\ UNCHANGED <<socket, dueError, createdBy, sendVars, regVars, configured,
                       debouncedUpdate>>

\* The peer ends the connection of the open websocket s: the websocket is CLOSING and
\* its receiver is told to finish; the manager gets no event until "close".
SocketEnd ==
    \E s \in SocketIds :
        /\ NoDue
        /\ readyState[s] = "OPEN"
        /\ receiver[s] \in {"reading", "stalled"}
        /\ readyState' = [readyState EXCEPT ![s] = "CLOSING"]
        /\ receiver' = [receiver EXCEPT ![s] = IF @ = "reading" THEN "ended" ELSE @]
        /\ Quiet
        /\ UNCHANGED <<lastLifecycle, atisCtl, pollVars, keyVars, exited>>
        /\ Running
        /\ op' = OpOf("end", s, "")
        /\ UNCHANGED <<socket, reconnectTimer, dueError, dueClose, timers, opened,
                       createdBy, sendVars, regVars, uiVars>>

\* "message": a frame arrives on websocket s, which is open, or closing after the
\* manager's close() with its handlers still attached and its receiver still reading.
\* When the handler throws, the exception leaves the receiver in the middle of its
\* frame: either it ends the process, or (with an uncaughtException handler in the
\* host) the receiver stays stalled.
SocketMessage ==
    \E s \in SocketIds, frame \in Frames :
        /\ NoDue
        /\ readyState[s] \in {"OPEN", "CLOSING"}
        /\ receiver[s] = "reading"
        /\ emitted' = processMessage(frame).events
        /\ raised' = processMessage(frame).threw
        /\ Route(processMessage(frame).events)
        /\ sent' = <<>>
        /\ receiver' = [receiver EXCEPT
                           ![s] = IF processMessage(frame).threw THEN "stalled" ELSE @]
        /\ exited' \in {e \in BOOLEAN : e => processMessage(frame).threw}
        /\ UNCHANGED <<lastLifecycle, atisCtl, pollVars, keyVars>>
        /\ Running
        /\ op' = OpOf("message", s, frame)
        /\ UNCHANGED <<connVars, sendVars, regVars, uiVars>>

(***************************************************************************)
(* Station-status indicator lifecycle                                      *)
(***************************************************************************)
\* StationStatus.onWillAppear: the indicator is added under its settings' callsign.
onWillAppear(h, callsign) == registry' = register(registry, callsign, h)

\* StationStatus.onWillDisappear
onWillDisappear(h) == registry' = unregister(registry, h)

\* StationStatus.onDidReceiveSettings
onDidReceiveSettings(h, callsign) == registry' = update(registry, h, callsign)

WillAppear ==
    \E h \in StationHandles \ visible, c \in Callsigns :
        /\ NoDue
        /\ onWillAppear(h, c)
        /\ visible' = visible \cup {h}
        /\ configured' = [configured EXCEPT ![h] = c]
        /\ Quiet
        /\ UNCHANGED extVars
        /\ Running
        /\ op' = OpOf("willAppear", Null, <<h, c>>)
        /\ UNCHANGED <<connVars, sendVars, statusCtl, volumeCtl, debouncedUpdate>>

WillDisappear ==
    \E h \in StationHandles \cap visible :
        /\ NoDue
        /\ onWillDisappear(h)
        /\ visible' = visible \ {h}
        /\ Quiet
        /\ UNCHANGED extVars
        /\ Running
        /\ op' = OpOf("willDisappear", Null, <<h>>)
        /\ UNCHANGED <<connVars, sendVars, uiVars>>

DidReceiveSettings ==
    \E h \in StationHandles \cap visible, c \in Callsigns :
        /\ NoDue
        /\ onDidReceiveSettings(h, c)
        /\ visible' = visible
        /\ configured' = [configured EXCEPT ![h] = c]
        /\ Quiet
        /\ UNCHANGED extVars
        /\ Running
        /\ op' = OpOf("didReceiveSettings", Null, <<h, c>>)
        /\ UNCHANGED <<connVars, sendVars, statusCtl, volumeCtl, debouncedUpdate>>

\* Settings arrive for an indicator that was on the deck and has disappeared since.
LateDidReceiveSettings ==
    \E h \in StationHandles \ visible, c \in Callsigns :
        /\ NoDue
        /\ configured[h] # ""
        /\ onDidReceiveSettings(h, c)
        /\ visible' = visible
        /\ configured' = [configured EXCEPT ![h] = c]
        /\ Quiet
        /\ UNCHANGED extVars
        /\ Running
        /\ op' = OpOf("didReceiveSettings", Null, <<h, c>>)
        /\ UNCHANGED <<connVars, sendVars, statusCtl, volumeCtl, debouncedUpdate>>

(***************************************************************************)
(* Connection-status indicator lifecycle                                   *)
(***************************************************************************)
\* The connection-status indicators that have a registry entry.
TrackAudioStatusControllers(reg) == {h \in StatusHandles : KeysOf(reg, h) # {}}

\* A handler that calls connect() whatever the count is.
handleTrackAudioStatusAdded_always(count) ==
    /\ connect(timers)
    /\ createdBy' = IF readyState' = readyState THEN createdBy ELSE "connect"
    /\ calls' = [g \in Handles |->
                    CallsOf(DispatchAll(<<StatusEvent(isConnected(readyState'))>>),
                            registry', g)]
    /\ resets' = {}

\* handleTrackAudioStatusAdded(count): connect() if the indicator is the only one,
\* then the manager's connection state is handed to the connection-status indicators.
handleTrackAudioStatusAdded(count) ==
    /\ IF count = 1
       THEN /\ connect(timers)
            /\ createdBy' = IF readyState' = readyState THEN createdBy ELSE "connect"
       ELSE UNCHANGED <<socket, reconnectTimer, readyState, dueError, dueClose, timers,
                        createdBy>>
    /\ calls' = [g \in Handles |->
                    CallsOf(DispatchAll(<<StatusEvent(isConnected(readyState'))>>),
                            registry', g)]
    /\ resets' = {}

\* The number of connection-status indicators the registry may report.
MaxCount == 2

\* The registry reports a connection-status indicator added, count being the number
\* of connection-status indicators it holds.
TrackAudioStatusAdded ==
    \E count \in 1 .. MaxCount :
        /\ NoDue
        /\ UNCHANGED regVars
        /\ handleTrackAudioStatusAdded(count)
        /\ Deliver
        /\ emitted' = <<>>
        /\ raised' = FALSE
        /\ sent' = <<>>
        /\ UNCHANGED extVars
        /\ Running
        /\ op' = OpOf("trackAudioStatusAdded", socket, <<count>>)
        /\ UNCHANGED <<opened, sendVars, configured, debouncedUpdate>>

\* TrackAudioStatus.onWillAppear: the indicator is added under the global key with a
\* new controller; handleTrackAudioStatusAdded then connects if it is the first one
\* and hands the manager's connection state to the indicators.
StatusWillAppear ==
    \E h \in StatusHandles \ visible :
        /\ NoDue
        /\ registry' = register(registry, GLOBAL, h)
        /\ visible' = visible \cup {h}
        /\ configured' = [configured EXCEPT ![h] = GLOBAL]
        /\ handleTrackAudioStatusAdded(Cardinality(TrackAudioStatusControllers(registry')))
        /\ UNCHANGED opened
        /\ emitted' = <<>>
        /\ raised' = FALSE
        /\ sent' = <<>>
        /\ statusCtl' = [g \in StatusHandles |->
                            StatusUpdateState(IF g = h THEN NewTrackAudioStatusController
                                              ELSE statusCtl[g], calls'[g])]
        /\ volumeCtl' = [g \in VolumeHandles |->
                            IF calls'[g] = <<>> THEN volumeCtl[g]
                            ELSE VolumeUpdateState(Stale(volumeCtl[g]), calls'[g])]
        /\ UNCHANGED extVars
        /\ Running
        /\ op' = OpOf("statusWillAppear", socket, <<h>>)
        /\ UNCHANGED <<sendVars, debouncedUpdate>>

\* TrackAudioStatus.onWillDisappear
StatusWillDisappear ==
    \E h \in StatusHandles \cap visible :
        /\ NoDue
        /\ registry' = unregister(registry, h)
        /\ visible' = visible \ {h}
        /\ statusCtl' = [statusCtl EXCEPT ![h] = NewTrackAudioStatusController]
        /\ Quiet
        /\ UNCHANGED extVars
        /\ Running
        /\ op' = OpOf("statusWillDisappear", Null, <<h>>)
        /\ UNCHANGED <<connVars, sendVars, volumeCtl, configured, debouncedUpdate>>

\* TrackAudioStatus.onDidReceiveSettings, for an indicator that is on the deck or that
\* was and has disappeared since.
StatusDidReceiveSettings ==
    \E h \in StatusHandles :
        /\ NoDue
        /\ configured[h] # ""
        /\ registry' = update(registry, h, GLOBAL)
        /\ Quiet
        /\ UNCHANGED extVars
        /\ Running
        /\ op' = OpOf("statusDidReceiveSettings", Null, <<h>>)
        /\ UNCHANGED <<connVars, sendVars, visible, uiVars>>

\* The engine reports its voice connection: the controller's isVoiceConnected is set.
SetVoiceConnected ==
    \E h \in StatusHandles \cap visible, v \in BOOLEAN :
        /\ NoDue
        /\ statusCtl' = [statusCtl EXCEPT
                            ![h] = TrackAudioStatusController_isVoiceConnected(@, v)]
        /\ Quiet
        /\ UNCHANGED extVars
        /\ Running
        /\ op' = OpOf("setVoiceConnected", Null, <<h, v>>)
        /\ UNCHANGED <<connVars, sendVars, regVars, volumeCtl, configured, debouncedUpdate>>

(***************************************************************************)
(* Main-volume dial lifecycle                                              *)
(***************************************************************************)
\* MainVolume.onWillAppear: the dial is added under the global key with a new
\* controller.
VolumeWillAppear ==
    \E h \in VolumeHandles \ visible :
        /\ NoDue
        /\ registry' = register(registry, GLOBAL, h)
        /\ visible' = visible \cup {h}
        /\ volumeCtl' = [volumeCtl EXCEPT ![h] = NewMainVolumeController]
        /\ Quiet
        /\ UNCHANGED extVars
        /\ Running
        /\ op' = OpOf("volumeWillAppear", Null, <<h>>)
        /\ UNCHANGED <<connVars, sendVars, statusCtl, configured, debouncedUpdate>>

\* MainVolume.onWillDisappear: the controller's pending settle timer is cancelled and
\* the dial is removed.
VolumeWillDisappear ==
    \E h \in VolumeHandles \cap visible :
        /\ NoDue
        /\ registry' = unregister(registry, h)
        /\ visible' = visible \ {h}
        /\ volumeCtl' = [volumeCtl EXCEPT ![h] = NoMainVolumeController]
        /\ Quiet
        /\ UNCHANGED extVars
        /\ Running
        /\ op' = OpOf("volumeWillDisappear", Null, <<h>>)
        /\ UNCHANGED <<connVars, sendVars, statusCtl, configured, debouncedUpdate>>

\* The engine reports its main output volume: the controller's volume is set.
SetVolume ==
    \E h \in VolumeHandles \cap visible, v \in Volumes :
        /\ NoDue
        /\ volumeCtl' = [volumeCtl EXCEPT ![h] = MainVolumeController_volume(Stale(@), v)]
        /\ Quiet
        /\ UNCHANGED extVars
        /\ Running
        /\ op' = OpOf("setVolume", Null, <<h, v, volumeCtl[h]>>)
        /\ UNCHANGED <<connVars, sendVars, regVars, statusCtl, configured, debouncedUpdate>>

\* Settings arrive for the dial: the controller's settings are set.
SetVolumeSettings ==
    \E h \in VolumeHandles \cap visible :
        /\ NoDue
        /\ volumeCtl' = [volumeCtl EXCEPT ![h] = MainVolumeController_settings(Stale(@))]
        /\ Quiet
        /\ UNCHANGED extVars
        /\ Running
        /\ op' = OpOf("setVolumeSettings", Null, <<h, volumeCtl[h]>>)
        /\ UNCHANGED <<connVars, sendVars, regVars, statusCtl, configured, debouncedUpdate>>

\* A timeout of the controller's debounced refreshDisplay expires.
SettleTimerFires ==
    \E h \in VolumeHandles :
        /\ NoDue
        /\ volumeCtl[h].pending > 0
        /\ volumeCtl' = [volumeCtl EXCEPT ![h] = [Refresh(@) EXCEPT !.pending = @ - 1]]
        /\ Quiet
        /\ UNCHANGED extVars
        /\ Running
        /\ op' = OpOf("settle", Null, <<h>>)
        /\ UNCHANGED <<connVars, sendVars, regVars, statusCtl, configured, debouncedUpdate>>

(***************************************************************************)
(* Station-volume dial lifecycle                                           *)
(***************************************************************************)
\* No call of debouncedUpdate is pending.
NoCall == [action |-> "", settings |-> ""]

\* StationVolume.onWillAppear
DialWillAppear ==
    \E d \in DialHandles \ visible, c \in Callsigns :
        /\ NoDue
        /\ registry' = register(registry, c, d)
        /\ visible' = visible \cup {d}
        /\ configured' = [configured EXCEPT ![d] = c]
        /\ Quiet
        /\ UNCHANGED extVars
        /\ Running
        /\ op' = OpOf("dialWillAppear", Null, <<d, c>>)
        /\ UNCHANGED <<connVars, sendVars, statusCtl, volumeCtl, debouncedUpdate>>

\* StationVolume.onDidReceiveSettings: debouncedUpdate(ev.action, settings).  The one
\* debounced function of the action class clears its pending timeout and keeps the
\* latest arguments.  The handler does not ask whether the dial is on the deck: the
\* event of a dial that has been on the deck is handled alike after its willDisappear.
DialDidReceiveSettings ==
    \E d \in DialHandles, c \in Callsigns :
        /\ NoDue
        /\ configured[d] # ""
        /\ debouncedUpdate' = [action |-> d, settings |-> c]
        /\ configured' = [configured EXCEPT ![d] = c]
        /\ Quiet
        /\ UNCHANGED extVars
        /\ Running
        /\ op' = OpOf("dialDidReceiveSettings", Null, <<d, c>>)
        /\ UNCHANGED <<connVars, sendVars, regVars, statusCtl, volumeCtl>>

\* StationVolume.onWillDisappear: handleRemove(ev.action)
DialWillDisappear ==
    \E d \in DialHandles \cap visible :
        /\ NoDue
        /\ registry' = unregister(registry, d)
        /\ visible' = visible \ {d}
        /\ Quiet
        /\ UNCHANGED extVars
        /\ Running
        /\ op' = OpOf("dialWillDisappear", Null, <<d>>)
        /\ UNCHANGED <<connVars, sendVars, uiVars>>

\* The timeout of debouncedUpdate expires:
\* handleUpdateStationVolumeSettings(action, settings) runs with the latest arguments.
DebouncedUpdateFires ==
    /\ NoDue
    /\ debouncedUpdate # NoCall
    /\ registry' = update(registry, debouncedUpdate.action, debouncedUpdate.settings)
    /\ debouncedUpdate' = NoCall
    /\ Quiet
    /\ UNCHANGED extVars
    /\ Running
    /\ op' = OpOf("debouncedUpdate", Null,
                  <<debouncedUpdate.action, debouncedUpdate.settings>>)
    /\ UNCHANGED <<connVars, sendVars, visible, statusCtl, volumeCtl, configured>>

(***************************************************************************)
(* AtisLetterController                                                    *)
(***************************************************************************)
AtisHandles == {"a1"}

\* A JavaScript string value.
JsString(str) == [kind |-> "string", text |-> str]

\* The values a letter is assigned: undefined, the empty string, a letter.
Letters == {JsUndefined, JsString(""), JsString("A"), JsString("B")}

\* The values of settings.autoClear.
AutoClearSettings == {JsUndefined, JsTrue, JsFalse}

\* ToBoolean(v): undefined, false and the empty string are falsy.
Truthy(v) ==
    IF v.kind = "undefined" THEN FALSE
    ELSE IF v.kind = "boolean" THEN v.text = "true"
    ELSE v.text # ""

\* Nothing drawn yet.
NotDrawn == [state |-> "none", letter |-> JsUndefined]

\* No controller: the fields as initialised, no settings.
NoAtisLetterController ==
    [exists |-> FALSE, letter |-> JsUndefined, isUpdated |-> FALSE,
     isUnavailable |-> FALSE, settingsAutoClear |-> JsUndefined,
     autoClearTimeout |-> FALSE, timeouts |-> 0, pending |-> 0, shown |-> NotDrawn]

\* get autoClear: settings.autoClear ?? true
AtisLetterController_autoClear(c) ==
    IF c.settingsAutoClear.kind = "undefined" THEN TRUE ELSE Truthy(c.settingsAutoClear)

\* refreshDisplay(), the debounced function, is called: the pending timeout, if any,
\* is cleared and a new one is set.
AtisLetterController_refreshDisplay(c) == [c EXCEPT !.pending = 1]

\* refreshImage() and refreshTitle() run: the image state and the letter drawn.
AtisLetterController_refresh(c) ==
    [c EXCEPT !.shown = [state |-> IF c.isUnavailable THEN "unavailable"
                                   ELSE IF c.isUpdated THEN "updated" ELSE "current",
                         letter |-> c.letter]]

\* reset()
AtisLetterController_reset(c) ==
    AtisLetterController_refreshDisplay(
        [c EXCEPT !.letter = JsUndefined, !.isUpdated = FALSE, !.isUnavailable = FALSE])

\* set isUnavailable(newValue)
AtisLetterController_isUnavailable(c, newValue) ==
    IF c.isUnavailable = newValue THEN c
    ELSE AtisLetterController_refreshDisplay([c EXCEPT !.isUnavailable = newValue])

\* set settings(newValue)
AtisLetterController_settings(c, newValue) ==
    AtisLetterController_refreshDisplay([c EXCEPT !.settingsAutoClear = newValue])

\* new AtisLetterController(action, settings): the constructor sets the settings.
NewAtisLetterController(settings) ==
    AtisLetterController_settings([NoAtisLetterController EXCEPT !.exists = TRUE], settings)

\* An isUpdated setter that sets a new timeout without clearing the pending one.
AtisLetterController_isUpdated_noClear(c, newValue) ==
    LET arm == newValue /\ AtisLetterController_autoClear(c)
    IN AtisLetterController_refreshDisplay(
           [c EXCEPT !.isUpdated = newValue,
                     !.autoClearTimeout = @ \/ arm,
                     !.timeouts = IF arm THEN @ + 1 ELSE @])

\* set isUpdated(newValue): the pending auto-clear timeout is cleared, the value is
\* stored, and a new timeout is set if the value is true and autoClear is on.
AtisLetterController_isUpdated(c, newValue) ==
    LET cleared == IF c.autoClearTimeout
                   THEN [c EXCEPT !.autoClearTimeout = FALSE, !.timeouts = @ - 1]
                   ELSE c
        stored == [cleared EXCEPT !.isUpdated = newValue]
        armed == IF stored.isUpdated /\ AtisLetterController_autoClear(stored)
                 THEN [stored EXCEPT !.autoClearTimeout = TRUE, !.timeouts = @ + 1]
                 ELSE stored
    IN AtisLetterController_refreshDisplay(armed)

\* set letter(newLetter)
AtisLetterController_letter(c, newLetter) ==
    AtisLetterController_refreshDisplay(
        [AtisLetterController_isUpdated(
             c, Truthy(c.letter) /\ Truthy(newLetter) /\ c.letter # newLetter)
         EXCEPT !.letter = newLetter])

\* The callback of the auto-clear timeout.
AtisLetterController_autoClearCallback(c) ==
    AtisLetterController_isUpdated(
        [c EXCEPT !.autoClearTimeout = FALSE, !.timeouts = @ - 1], FALSE)

\* The step leaves everything but the ATIS-letter controllers alone.
OnlyAtis ==
    /\ Quiet
    /\ UNCHANGED <<connVars, sendVars, regVars, uiVars, lastLifecycle, procVars, pollVars, keyVars>>

\* The ATIS-letter indicator appears on the deck: its controller is constructed.
AtisWillAppear ==
    \E a \in AtisHandles, settings \in AutoClearSettings :
        /\ ~atisCtl[a].exists
        /\ atisCtl' = [atisCtl EXCEPT ![a] = NewAtisLetterController(settings)]
        /\ Running
        /\ op' = OpOf("atisWillAppear", Null, <<a, settings, atisCtl[a]>>)
        /\ OnlyAtis

\* Settings arrive for the ATIS-letter indicator.
AtisSetSettings ==
    \E a \in AtisHandles, settings \in AutoClearSettings :
        /\ atisCtl[a].exists
        /\ atisCtl' = [atisCtl EXCEPT ![a] = AtisLetterController_settings(@, settings)]
        /\ Running
        /\ op' = OpOf("atisSetSettings", Null, <<a, settings, atisCtl[a]>>)
        /\ OnlyAtis

\* The data feed reports the station's ATIS letter: controller.letter = newLetter.
AtisSetLetter ==
    \E a \in AtisHandles, newLetter \in Letters :
        /\ atisCtl[a].exists
        /\ atisCtl' = [atisCtl EXCEPT ![a] = AtisLetterController_letter(@, newLetter)]
        /\ Running
        /\ op' = OpOf("atisSetLetter", Null, <<a, newLetter, atisCtl[a]>>)
        /\ OnlyAtis

\* controller.isUpdated = newValue
AtisSetIsUpdated ==
    \E a \in AtisHandles, newValue \in BOOLEAN :
        /\ atisCtl[a].exists
        /\ atisCtl' = [atisCtl EXCEPT ![a] = AtisLetterController_isUpdated(@, newValue)]
        /\ Running
        /\ op' = OpOf("atisSetIsUpdated", Null, <<a, newValue, atisCtl[a]>>)
        /\ OnlyAtis

\* controller.isUnavailable = newValue
AtisSetIsUnavailable ==
    \E a \in AtisHandles, newValue \in BOOLEAN :
        /\ atisCtl[a].exists
        /\ atisCtl' = [atisCtl EXCEPT
                          ![a] = AtisLetterController_isUnavailable(@, newValue)]
        /\ Running
        /\ op' = OpOf("atisSetIsUnavailable", Null, <<a, newValue, atisCtl[a]>>)
        /\ OnlyAtis

\* controller.reset()
AtisReset ==
    \E a \in AtisHandles :
        /\ atisCtl[a].exists
        /\ atisCtl' = [atisCtl EXCEPT ![a] = AtisLetterController_reset(@)]
        /\ Running
        /\ op' = OpOf("atisReset", Null, <<a, "", atisCtl[a]>>)
        /\ OnlyAtis

\* The timeout of the controller's debounced refreshDisplay expires.
AtisSettleTimerFires ==
    \E a \in AtisHandles :
        /\ atisCtl[a].pending > 0
        /\ atisCtl' = [atisCtl EXCEPT
                          ![a] = [AtisLetterController_refresh(@) EXCEPT !.pending = @ - 1]]
        /\ Running
        /\ op' = OpOf("atisSettle", Null, <<a, "", atisCtl[a]>>)
        /\ OnlyAtis

\* An auto-clear timeout of the controller expires.
AtisAutoClearFires ==
    \E a \in AtisHandles :
        /\ atisCtl[a].timeouts > 0
        /\ atisCtl' = [atisCtl EXCEPT ![a] = AtisLetterController_autoClearCallback(@)]
        /\ Running
        /\ op' = OpOf("atisAutoClear", Null, <<a, "", atisCtl[a]>>)
        /\ OnlyAtis

(***************************************************************************)
(* One controller driven through its interface                             *)
(***************************************************************************)
\* No indicator is on the deck.
DeckEmpty == visible = {} /\ \A a \in AtisHandles : ~atisCtl[a].exists

\* The step leaves everything but the connection-status controllers alone.
OnlyStatus ==
    /\ Quiet
    /\ UNCHANGED <<connVars, sendVars, regVars, volumeCtl, configured, debouncedUpdate,
                   extVars>>

\* The step leaves everything but the main-volume controllers alone.
OnlyVolume ==
    /\ Quiet
    /\ UNCHANGED <<connVars, sendVars, regVars, statusCtl, configured, debouncedUpdate,
                   extVars>>

\* controller.isConnected = newValue on a connection-status controller
StatusSetIsConnected ==
    \E h \in StatusHandles \cap visible, newValue \in BOOLEAN :
        /\ statusCtl' = [statusCtl EXCEPT
                            ![h] = TrackAudioStatusController_isConnected(@, newValue)]
        /\ Running
        /\ op' = OpOf("statusSetIsConnected", Null, <<h, newValue>>)
        /\ OnlyStatus

\* controller.reset() on a connection-status controller
StatusReset ==
    \E h \in StatusHandles \cap visible :
        /\ statusCtl' = [statusCtl EXCEPT ![h] = TrackAudioStatusController_reset(@)]
        /\ Running
        /\ op' = OpOf("statusReset", Null, <<h>>)
        /\ OnlyStatus

\* controller.isConnected = newValue on a main-volume controller
VolumeSetIsConnected ==
    \E h \in VolumeHandles \cap visible, newValue \in BOOLEAN :
        /\ volumeCtl' = [volumeCtl EXCEPT
                            ![h] = MainVolumeController_isConnected(Stale(@), newValue)]
        /\ Running
        /\ op' = OpOf("volumeSetIsConnected", Null, <<h, newValue, volumeCtl[h]>>)
        /\ OnlyVolume

\* controller.reset() on a main-volume controller
VolumeReset ==
    \E h \in VolumeHandles \cap visible :
        /\ volumeCtl' = [volumeCtl EXCEPT ![h] = MainVolumeController_reset(Stale(@))]
        /\ Running
        /\ op' = OpOf("volumeReset", Null, <<h, "", volumeCtl[h]>>)
        /\ OnlyVolume

\* The deck's only indicator appears: a connection-status indicator, a main-volume
\* dial or an ATIS-letter indicator.
StatusAlone == DeckEmpty /\ StatusWillAppear
VolumeAlone == DeckEmpty /\ VolumeWillAppear
AtisAlone == DeckEmpty /\ AtisWillAppear

(***************************************************************************)
(* VatsimManager: the poller of the VATSIM data feed                       *)
(***************************************************************************)
\* The interval handles the runtime hands out.
MaxIntervals == 2
IntervalIds == 1 .. MaxIntervals

\* The fetches that may await their response at one time.
MaxFetches == 3

\* start(intervalInMs = 300000)
defaultPollInterval == 300000

\* The polling periods start() is called with: five minutes, one minute.
PollIntervals == {defaultPollInterval, defaultPollInterval \div 5}

\* Interval handles neither active nor referenced by the manager.
FreeIntervals == IntervalIds \ ({i.id : i \in intervals} \cup {intervalId})

\* setInterval(): the fresh handle gets the smallest unused id.
NewInterval == CHOOSE i \in FreeIntervals : \A u \in FreeIntervals : i <= u

\* A stop() that does not clear the interval.
stop_noClear(iv) == iv

\* stop(), on the active intervals iv: clearInterval(this.intervalId) unless the
\* field is null.  The field keeps the handle.
stop(iv) == IF intervalId # Null THEN {i \in iv : i.id # intervalId} ELSE iv

\* fetchData() is called: the request is sent and its response awaited.
fetchData == fetches' = fetches + 1

\* start(intervalInMs): stop(), fetch right away, set up the polling interval.
start(intervalInMs) ==
    /\ FreeIntervals # {}
    /\ fetches < MaxFetches
    /\ fetchData
    /\ intervalId' = NewInterval
    /\ intervals' = stop(intervals) \cup {[id |-> NewInterval, delay |-> intervalInMs]}

\* The step leaves everything but the poller alone.
OnlyPoller ==
    UNCHANGED <<connVars, sendVars, regVars, uiVars, lastLifecycle, procVars, atisCtl, keyVars>>

\* The host calls start(intervalInMs).
PollerStart ==
    \E intervalInMs \in PollIntervals :
        /\ start(intervalInMs)
        /\ Quiet
        /\ Running
        /\ op' = OpOf("pollerStart", Null, <<intervals, intervalInMs>>)
        /\ OnlyPoller

\* The host calls stop().
PollerStop ==
    /\ intervals' = stop(intervals)
    /\ UNCHANGED <<intervalId, fetches>>
    /\ Quiet
    /\ Running
    /\ op' = OpOf("pollerStop", Null, <<intervals>>)
    /\ OnlyPoller

\* The host calls refresh(): stop(), then start() with the default period.
PollerRefresh ==
    /\ start(defaultPollInterval)
    /\ Quiet
    /\ Running
    /\ op' = OpOf("pollerRefresh", Null, <<intervals>>)
    /\ OnlyPoller

\* An active interval elapses: its callback calls fetchData().
IntervalFires ==
    \E i \in intervals :
        /\ fetches < MaxFetches
        /\ fetchData
        /\ UNCHANGED <<intervalId, intervals>>
        /\ Quiet
        /\ Running
        /\ op' = OpOf("interval", Null, <<i.id>>)
        /\ OnlyPoller

\* The response of a fetch arrives: "vatsimDataReceived" is emitted with the data.
FetchSucceeds ==
    /\ fetches > 0
    /\ fetches' = fetches - 1
    /\ UNCHANGED <<intervalId, intervals>>
    /\ emitted' = <<LifecycleEvent("vatsimDataReceived")>>
    /\ raised' = FALSE
    /\ calls' = [h \in Handles |-> <<>>]
    /\ resets' = {}
    /\ sent' = <<>>
    /\ Running
    /\ op' = OpOf("fetchSucceeds", Null, <<intervals>>)
    /\ OnlyPoller

\* A fetch fails: the error is logged.
FetchFails ==
    /\ fetches > 0
    /\ fetches' = fetches - 1
    /\ UNCHANGED <<intervalId, intervals>>
    /\ Quiet
    /\ Running
    /\ op' = OpOf("fetchFails", Null, <<intervals>>)
    /\ OnlyPoller

(***************************************************************************)
(* Key presses on station-status and hotline buttons                       *)
(***************************************************************************)
\* The singleton action classes with key handlers, and their buttons on the deck.
ActionClasses == {"StationStatus", "Hotline"}
Buttons == {"b1", "b2", "k1"}
ClassOf(b) == IF b = "k1" THEN "Hotline" ELSE "StationStatus"

\* The longest a press may last and still be a short press; the clock counts in
\* this unit.
LONG_PRESS_THRESHOLD == 1

\* The last reading of the clock.
MaxTime == 4

\* Time passes.
Tick ==
    /\ now < MaxTime
    /\ now' = now + 1
    /\ UNCHANGED <<keyDownStart, downAt>>
    /\ Quiet
    /\ Running
    /\ op' = OpOf("tick", Null, "")
    /\ UNCHANGED <<connVars, sendVars, regVars, uiVars, lastLifecycle, procVars, atisCtl, pollVars>>

\* onKeyDown of the button's action class: this._keyDownStart = Date.now()
KeyDown ==
    \E b \in Buttons :
        /\ downAt[b] = Null
        /\ keyDownStart' = [keyDownStart EXCEPT ![ClassOf(b)] = now]
        /\ downAt' = [downAt EXCEPT ![b] = now]
        /\ UNCHANGED now
        /\ Quiet
        /\ Running
        /\ op' = OpOf("keyDown", Null, <<b>>)
        /\ UNCHANGED <<connVars, sendVars, regVars, uiVars, lastLifecycle, procVars, atisCtl,
                       pollVars>>

\* The handler onKeyUp invokes for a press that began at since and ends now.
PressKind(since) == IF now - since > LONG_PRESS_THRESHOLD THEN "longPress" ELSE "shortPress"

\* onKeyUp of the button's action class: the press length is measured from
\* this._keyDownStart and the long-press or the short-press handler is invoked for
\* the button.
KeyUp ==
    \E b \in Buttons :
        /\ downAt[b] # Null
        /\ downAt' = [downAt EXCEPT ![b] = Null]
        /\ UNCHANGED <<keyDownStart, now>>
        /\ Quiet
        /\ Running
        /\ op' = OpOf("keyUp", Null, <<b, PressKind(keyDownStart[ClassOf(b)])>>)
        /\ UNCHANGED <<connVars, sendVars, regVars, uiVars, lastLifecycle, procVars, atisCtl,
                       pollVars>>

Init ==
    /\ socket = Null
    /\ reconnectTimer = Null
    /\ readyState = [s \in SocketIds |-> "NONE"]
    /\ dueError = Null
    /\ dueClose = Null
    /\ timers = {}
    /\ emitted = <<>>
    /\ raised = FALSE
    /\ wire = {}
    /\ submittedClosed = {}
    /\ nextMsg = 0
    /\ registry = {}
    /\ visible = {}
    /\ calls = [h \in Handles |-> <<>>]
    /\ resets = {}
    /\ opened = {}
    /\ createdBy = "none"
    /\ sent = <<>>
    /\ statusCtl = [h \in StatusHandles |-> NewTrackAudioStatusController]
    /\ volumeCtl = [h \in VolumeHandles |-> NoMainVolumeController]
    /\ configured = [h \in Indicators |-> ""]
    /\ debouncedUpdate = NoCall
    /\ lastLifecycle = "none"
    /\ receiver = [s \in SocketIds |-> "none"]
    /\ exited = FALSE
    /\ atisCtl = [a \in AtisHandles |-> NoAtisLetterController]
    /\ intervalId = Null
    /\ intervals = {}
    /\ fetches = 0
    /\ keyDownStart = [cls \in ActionClasses |-> 0]
    /\ downAt = [b \in Buttons |-> Null]
    /\ now = 1
    /\ op = [name |-> "init", sock |-> Null, pre |-> "NONE", pending |-> {}, arg |-> ""]

(***************************************************************************)
(* The registry driven directly through its interface                      *)
(***************************************************************************)
\* The handles the registry interface is driven with.
RegistryHandles == StationHandles \cup StatusHandles

\* Events a caller may broadcast.
BroadcastEvents ==
    {Event("stationStateUpdate",
           [callsign |-> c, rx |-> f[1], tx |-> f[2], xc |-> f[3], headset |-> f[4]]) :
        c \in Callsigns, f \in {<<TRUE, FALSE, FALSE, TRUE>>, NoFlags}}
    \cup {LifecycleEvent("connected")}

Register ==
    \E k \in Keys, h \in RegistryHandles :
        /\ registry' = register(registry, k, h)
        /\ Quiet
        /\ UNCHANGED extVars
        /\ Running
        /\ op' = OpOf("register", Null, <<k, h>>)
        /\ UNCHANGED <<connVars, sendVars, visible, uiVars>>

Unregister ==
    \E h \in RegistryHandles :
        /\ registry' = unregister(registry, h)
        /\ Quiet
        /\ UNCHANGED extVars
        /\ Running
        /\ op' = OpOf("unregister", Null, <<h, KeysOf(registry, h)>>)
        /\ UNCHANGED <<connVars, sendVars, visible, uiVars>>

Update ==
    \E h \in RegistryHandles, k \in Keys :
        /\ registry' = update(registry, h, k)
        /\ Quiet
        /\ UNCHANGED extVars
        /\ Running
        /\ op' = OpOf("update", Null, <<h, k, KeysOf(registry, h)>>)
        /\ UNCHANGED <<connVars, sendVars, visible, uiVars>>

Broadcast ==
    \E k \in Keys, ev \in BroadcastEvents :
        /\ calls' = [h \in Handles |-> CallsOf(<<[key |-> k, event |-> ev]>>, registry, h)]
        /\ resets' = {}
        /\ emitted' = <<>>
        /\ raised' = FALSE
        /\ sent' = <<>>
        /\ UNCHANGED extVars
        /\ Running
        /\ op' = OpOf("broadcast", Null, [key |-> k, event |-> ev])
        /\ UNCHANGED <<connVars, sendVars, regVars, uiVars>>

NextRegistry == Register \/ Unregister \/ Update \/ Broadcast

SpecRegistry == Init /\ [][NextRegistry]_vars

\* The connection manager: host calls, websocket lifecycle events, the timer.
Next ==
    \/ Connect
    \/ Disconnect
    \/ ReconnectTimerFires
    \/ Send
    \/ SocketOpen
    \/ SocketError
    \/ SocketClose

Spec == Init /\ [][Next]_vars

\* The inbound pipeline: the host connecting and disconnecting, the websocket's events
\* with frames arriving on it, and station-status indicators appearing.
NextInbound ==
    \/ Connect
    \/ Disconnect
    \/ SocketOpen
    \/ SocketError
    \/ SocketClose
    \/ SocketEnd
    \/ SocketMessage
    \/ WillAppear

SpecInbound == Init /\ [][NextInbound]_vars

\* The frames alone: the host connecting and disconnecting, websockets opening and
\* closing, frames arriving on them, and station-status indicators appearing.
NextFrames ==
    \/ Connect
    \/ Disconnect
    \/ SocketOpen
    \/ SocketClose
    \/ SocketMessage
    \/ WillAppear

SpecFrames == Init /\ [][NextFrames]_vars

\* The host sends a kSetStationState command built from a frequency and the tri-state
\* choices for tx, rx and xc.
SetStationState ==
    \E f \in Frequencies, tx \in Choices, rx \in Choices, xc \in Choices :
        /\ NoDue
        /\ sent' = socketSend(readyState, buildSetStationState(f, tx, rx, xc))
        /\ emitted' = <<>>
        /\ raised' = FALSE
        /\ calls' = [h \in Handles |-> <<>>]
        /\ resets' = {}
        /\ UNCHANGED extVars
        /\ Running
        /\ op' = OpOf("setStationState", socket,
                      [frequency |-> f, tx |-> tx, rx |-> rx, xc |-> xc])
        /\ UNCHANGED <<connVars, sendVars, regVars, uiVars>>

\* The command path: the connection coming and going and the host sending commands.
NextCommands ==
    \/ Connect
    \/ SocketOpen
    \/ SocketClose
    \/ ReconnectTimerFires
    \/ SetStationState

SpecCommands == Init /\ [][NextCommands]_vars

\* The indicator lifecycle: station-status and connection-status indicators appearing,
\* receiving settings and disappearing.
NextLifecycle ==
    \/ WillAppear
    \/ WillDisappear
    \/ DidReceiveSettings
    \/ LateDidReceiveSettings
    \/ StatusWillAppear
    \/ StatusWillDisappear
    \/ StatusDidReceiveSettings

SpecLifecycle == Init /\ [][NextLifecycle]_vars

\* The connection manager with the controllers of the connection-status indicators and
\* main-volume dials on the deck.
NextDisplay ==
    \/ Connect
    \/ Disconnect
    \/ ReconnectTimerFires
    \/ SocketOpen
    \/ SocketError
    \/ SocketClose
    \/ StatusWillAppear
    \/ StatusWillDisappear
    \/ VolumeWillAppear
    \/ VolumeWillDisappear
    \/ SettleTimerFires

SpecDisplay == Init /\ [][NextDisplay]_vars

\* The main-volume dial: its controller changed by the connection coming and going,
\* by the volume and the settings it is given, and by its settle timer.
NextVolume ==
    \/ Connect
    \/ ReconnectTimerFires
    \/ SocketOpen
    \/ SocketError
    \/ SocketClose
    \/ VolumeWillAppear
    \/ VolumeWillDisappear
    \/ SetVolume
    \/ SetVolumeSettings
    \/ SettleTimerFires

SpecVolume == Init /\ [][NextVolume]_vars

\* Connection loss with indicators of every kind registered.
NextReset ==
    \/ Connect
    \/ ReconnectTimerFires
    \/ SocketOpen
    \/ SocketError
    \/ SocketClose
    \/ WillAppear
    \/ WillDisappear
    \/ StatusWillAppear
    \/ StatusWillDisappear
    \/ VolumeWillAppear
    \/ VolumeWillDisappear
    \/ SetVoiceConnected

SpecReset == Init /\ [][NextReset]_vars

\* The station-volume dials and the debounced settings update of their action class.
NextDials ==
    \/ DialWillAppear
    \/ DialDidReceiveSettings
    \/ DialWillDisappear
    \/ DebouncedUpdateFires

SpecDials == Init /\ [][NextDials]_vars

\* Keys pressed and released as time passes.
NextKeys == Tick \/ KeyDown \/ KeyUp

SpecKeys == Init /\ [][NextKeys]_vars

\* The poller of the VATSIM data feed.
NextPoller ==
    \/ PollerStart
    \/ PollerStop
    \/ PollerRefresh
    \/ IntervalFires
    \/ FetchSucceeds
    \/ FetchFails

SpecPoller == Init /\ [][NextPoller]_vars

\* Connection-status indicators come and go while the connection lives its life.
NextStatusAdded ==
    \/ StatusWillAppear
    \/ StatusWillDisappear
    \/ TrackAudioStatusAdded
    \/ ReconnectTimerFires
    \/ SocketOpen
    \/ SocketError
    \/ SocketClose

SpecStatusAdded == Init /\ [][NextStatusAdded]_vars

\* One controller at a time driven through its interface.
NextControllers ==
    \/ StatusAlone
    \/ StatusSetIsConnected
    \/ SetVoiceConnected
    \/ StatusReset
    \/ VolumeAlone
    \/ SetVolume
    \/ SetVolumeSettings
    \/ VolumeSetIsConnected
    \/ VolumeReset
    \/ SettleTimerFires
    \/ AtisAlone
    \/ AtisSetSettings
    \/ AtisSetLetter
    \/ AtisSetIsUpdated
    \/ AtisSetIsUnavailable
    \/ AtisReset
    \/ AtisSettleTimerFires
    \/ AtisAutoClearFires

SpecControllers == Init /\ [][NextControllers]_vars

\* The runtime fires every timeout that stays pending.
TimersFire ==
    /\ WF_vars(SettleTimerFires)
    /\ WF_vars(AtisSettleTimerFires)
    /\ WF_vars(AtisAutoClearFires)

SpecControllersFair == SpecControllers /\ TimersFire

(***************************************************************************)
(* Connection manager properties                                           *)
(***************************************************************************)
\* A step in which a handler calls reconnect(): the "error" and "close" handlers.
ReconnectRequested == op'.name \in {"error", "close"}

\* C1: at most one reconnect timer is pending at any time, whatever the sequence of
\* connect(), disconnect(), websocket events and timer expiries; a reconnect request
\* made while a timer is pending leaves the pending timers exactly as they were
\* (no second timer, the pending one not replaced).
C1_SingleReconnectTimer ==
    /\ [](Cardinality(timers) <= 1)
    /\ [][(ReconnectRequested /\ timers # {}) => timers' = timers]_vars

\* A "close" event was handled while the timer armed by the preceding "error" was
\* still pending, and that timer is still the only one.
C1_Witness ==
    /\ op.name = "close"
    /\ op.pending # {}
    /\ timers = op.pending
    /\ Cardinality(timers) = 1

\* C2: once disconnect() has run (this.socket is null, no timer pending), the manager
\* stays that way until the host calls connect(): no websocket event and no timer
\* schedules a reconnect or opens a websocket.
C2_DisconnectIsPermanent ==
    [][(socket = Null /\ timers = {} /\ op'.name # "connect")
        => (socket' = Null /\ timers' = {})]_vars

\* The current websocket is closed, no reconnect timer is pending and no websocket
\* is left that could still deliver a "close" or "error" event.
Stranded ==
    /\ socket # Null
    /\ readyState[socket] = "CLOSED"
    /\ timers = {}
    /\ \A s \in SocketIds : readyState[s] \in {"NONE", "CLOSED"}

\* C3: after a close or error without disconnect(), a reconnect is always still to
\* come: the manager is never left with a closed websocket, no pending reconnect
\* timer and no event that could schedule one.
C3_NeverStranded == ~Stranded

\* C4: when the current websocket closes after having been open (directly, or after
\* an "error" event for the same failure), the connection state is Disconnected, one
\* "disconnected" event is emitted and exactly one reconnect timer, with the
\* configured delay, is pending.
C4_CloseSchedulesOneReconnect ==
    [][(op'.name = "close" /\ op'.sock = socket /\ socket \in opened)
        => /\ ConnectionState' = "Disconnected"
           /\ emitted' = <<LifecycleEvent("disconnected")>>
           /\ Cardinality(timers') = 1
           /\ \A t \in timers' : t.delay = reconnectInterval]_vars

\* C5: connect() called while this.socket is connecting or open changes nothing: no
\* new websocket, no event, the same connection state and the same pending timer.
\* This holds of the host's call and of the call the reconnect timer's callback
\* makes (where the only change is that the expired timer is no longer pending).
C5_ConnectWhileLiveIsNoOp ==
    [][(op'.name \in {"connect", "timer"} /\ socket # Null
            /\ readyState[socket] \in {"CONNECTING", "OPEN"})
        => /\ socket' = socket
           /\ readyState' = readyState
           /\ reconnectTimer' = reconnectTimer
           /\ timers' \subseteq timers
           /\ op'.name = "connect" => timers' = timers
           /\ emitted' = <<>>
           /\ ~raised'
           /\ ConnectionState' = ConnectionState]_vars

\* connect() has just been called while the websocket was connecting or open and a
\* reconnect timer was pending.
C5_Witness ==
    /\ op.name = "connect"
    /\ op.pre \in {"CONNECTING", "OPEN"}
    /\ op.pending # {}

\* C6: send() while the websocket is not open transmits nothing, raises nothing and
\* changes no state of the manager, and no message submitted while not open is ever
\* transmitted, also not after a later reconnect.
C6_SendWhileClosedIsDropped ==
    /\ [](wire \cap submittedClosed = {})
    /\ [][(op'.name = "send" /\ ~IsOpen)
            => (wire' = wire /\ ~raised' /\ UNCHANGED connVars)]_vars

\* A message was submitted while not open, the connection was opened afterwards and
\* a later message was transmitted on it.
C6_Witness ==
    /\ 1 \in submittedClosed
    /\ 2 \in wire
    /\ IsOpen

(***************************************************************************)
(* Inbound pipeline properties                                             *)
(***************************************************************************)
NoCalls == [h \in Handles |-> <<>>]

\* C7: a frame that is not valid JSON is dropped: the message handler raises nothing,
\* emits nothing and leaves the connection, its receiver and the process untouched.
C7_MalformedFrameDropped ==
    [][(op'.name = "message" /\ ~op'.arg.json)
        => /\ ~raised'
           /\ emitted' = <<>>
           /\ calls' = NoCalls
           /\ UNCHANGED connVars
           /\ UNCHANGED procVars]_vars

\* C8: a well-formed frame with an unrecognized type tag raises nothing, emits no
\* event, reaches no controller and leaves the connection state, the receiver and
\* the process unchanged.
C8_UnknownTagIgnored ==
    [][(op'.name = "message" /\ op'.arg.json /\ op'.arg.type \notin KnownTags)
        => /\ ~raised'
           /\ emitted' = <<>>
           /\ calls' = NoCalls
           /\ resets' = {}
           /\ UNCHANGED connVars
           /\ UNCHANGED procVars
           /\ ConnectionState' = ConnectionState]_vars

\* A frame with an unrecognized tag has just been handled while a handle was
\* registered under the callsign it names.
C8_Witness ==
    /\ op.name = "message"
    /\ op.arg.json
    /\ op.arg.type = UnknownTag
    /\ \E h \in Handles : <<op.arg.callsign, h>> \in registry

\* C9: a kStationStateUpdate frame with callsign c gives every handle registered
\* under c exactly one updateState call carrying the frame's rx, tx, xc and headset
\* flags, and gives handles registered under other keys none.
C9_StationStateUpdateDelivered ==
    [][(op'.name = "message" /\ op'.arg.json /\ op'.arg.type = "kStationStateUpdate")
        => \A h \in Handles :
             calls'[h] = IF <<op'.arg.callsign, h>> \in registry
                         THEN <<Event("stationStateUpdate", JSONparse(op'.arg).data.value)>>
                         ELSE <<>>]_vars

(***************************************************************************)
(* Registry properties                                                     *)
(***************************************************************************)
\* C10: broadcast(key, ev) invokes updateState(ev) exactly once on each handle that
\* has an entry under key and on no other handle, whatever the registry holds.
C10_BroadcastReachesKey ==
    [][op'.name = "broadcast"
        => \A h \in Handles :
             calls'[h] = IF <<op'.arg.key, h>> \in registry
                         THEN <<op'.arg.event>> ELSE <<>>]_vars

\* A broadcast has just reached two handles registered under the same key while a
\* third handle, registered only under another key, received nothing.
C10_Witness ==
    /\ op.name = "broadcast"
    /\ \E h1, h2, h3 \in Handles :
         /\ h1 # h2
         /\ <<op.arg.key, h1>> \in registry /\ Len(calls[h1]) = 1
         /\ <<op.arg.key, h2>> \in registry /\ Len(calls[h2]) = 1
         /\ <<op.arg.key, h3>> \notin registry
         /\ \E k \in Keys : <<k, h3>> \in registry
         /\ calls[h3] = <<>>

\* C11: update(h, newKey) leaves the registry as unregister(h) followed by
\* register(newKey, h) would: h's previous entries are gone, <<newKey, h>> is
\* present and the entries of the other handles are untouched; afterwards a
\* broadcast invokes h, exactly once, if and only if its key is newKey.
C11_UpdateIsUnregisterThenRegister ==
    [][op'.name = "update"
        => LET h == op'.arg[1]
               newKey == op'.arg[2]
           IN /\ registry' = {e \in registry : e[2] # h} \cup {<<newKey, h>>}
              /\ \A k \in Keys :
                   LET ev == [key |-> k, event |-> LifecycleEvent("connected")]
                   IN CallsOf(<<ev>>, registry', h)
                        = IF k = newKey THEN <<ev.event>> ELSE <<>>]_vars

\* update(h, newKey) has just moved a handle that was registered under another key,
\* while another handle stays registered under that previous key.
C11_Witness ==
    /\ op.name = "update"
    /\ \E k \in op.arg[3], g \in Handles :
         /\ k # op.arg[2]
         /\ g # op.arg[1]
         /\ <<k, g>> \in registry
         /\ <<k, op.arg[1]>> \notin registry
         /\ <<op.arg[2], op.arg[1]>> \in registry

\* C12: unregister(h) removes every entry of h, whatever its key, and nothing else,
\* and raises nothing; when h has no entry the registry is left unchanged; a
\* broadcast to a key without entries invokes nothing and raises nothing.
C12_UnregisterIsIdempotent ==
    /\ [][op'.name = "unregister"
            => /\ KeysOf(registry', op'.arg[1]) = {}
               /\ \A g \in Handles \ {op'.arg[1]} :
                    KeysOf(registry', g) = KeysOf(registry, g)
               /\ KeysOf(registry, op'.arg[1]) = {} => registry' = registry
               /\ ~raised']_vars
    /\ [][(op'.name = "broadcast" /\ \A h \in Handles : <<op'.arg.key, h>> \notin registry)
            => (calls' = NoCalls /\ resets' = {} /\ ~raised' /\ registry' = registry)]_vars

\* unregister(h) has just removed a handle that was registered under two keys, one of
\* them the global key, while another handle's entry stayed.
C12_Witness ==
    /\ op.name = "unregister"
    /\ GLOBAL \in op.arg[2]
    /\ Cardinality(op.arg[2]) = 2
    /\ KeysOf(registry, op.arg[1]) = {}
    /\ registry # {}

(***************************************************************************)
(* Indicator lifecycle properties                                          *)
(***************************************************************************)
\* C13: whatever willAppear, didReceiveSettings and willDisappear events have been
\* delivered, the registry holds an entry for a station-status or connection-status
\* indicator exactly while it is on the deck (appeared and not disappeared since),
\* and then exactly one, under the key of its most recently received settings; a
\* settings event after willDisappear creates no entry.
C13_RegistryFollowsLifecycle ==
    \A h \in StationHandles \cup StatusHandles :
        KeysOf(registry, h) = IF h \in visible THEN {configured[h]} ELSE {}

(***************************************************************************)
(* Controller properties                                                   *)
(***************************************************************************)
\* The handles that have a registry entry.
Registered(reg) == {h \in Handles : KeysOf(reg, h) # {}}

\* C14: the "close" handler emits "disconnected"; handling it gives every handle
\* registered under the global key one connection-status call and invokes reset() on
\* every registered handle, after which no registered connection-status controller
\* is connected or voice-connected and no registered main-volume controller is
\* connected, its volume is the default and its display refresh is scheduled.
C14_DisconnectedResetsControllers ==
    [][op'.name = "close"
        => /\ emitted' = <<LifecycleEvent("disconnected")>>
           /\ \A h \in Handles :
                <<GLOBAL, h>> \in registry
                    => calls'[h] = <<LifecycleEvent("disconnected")>>
           /\ resets' = Registered(registry)
           /\ \A h \in StatusHandles \cap Registered(registry) :
                ~statusCtl'[h].isConnected /\ ~statusCtl'[h].isVoiceConnected
           /\ \A h \in VolumeHandles \cap Registered(registry) :
                /\ ~volumeCtl'[h].isConnected
                /\ volumeCtl'[h].volume = DefaultVolume
                /\ volumeCtl'[h].pending = 1
                /\ ~volumeCtl'[h].drawn]_vars

\* A "close" event has just been handled with a station-status, a connection-status
\* and a main-volume indicator registered, the connection-status controller having
\* been connected and voice-connected and the main-volume controller connected.
C14_Witness ==
    /\ op.name = "close"
    /\ \E h \in StationHandles : h \in resets
    /\ \E h \in StatusHandles :
         /\ h \in resets
         /\ op.arg.status[h].isConnected
         /\ op.arg.status[h].isVoiceConnected
         /\ ~statusCtl[h].isVoiceConnected
    /\ \E h \in VolumeHandles :
         /\ h \in resets
         /\ op.arg.volume[h].isConnected
         /\ ~volumeCtl[h].isConnected

\* C15: whenever a websocket opens, by a call of connect() or by the reconnect
\* timer's, the connection is Connected, every controller registered under the
\* global key is set to connected, and exactly one kGetStationStates request is
\* handed to the open websocket.
C15_ConnectedRefreshesState ==
    [][op'.name = "open"
        => /\ ConnectionState' = "Connected"
           /\ op'.sock = socket'
           /\ \A h \in StatusHandles :
                <<GLOBAL, h>> \in registry => statusCtl'[h].isConnected
           /\ \A h \in VolumeHandles :
                <<GLOBAL, h>> \in registry => volumeCtl'[h].isConnected
           /\ sent' = <<<<<<"type", "\"kGetStationStates\"">>>>>>]_vars

\* A websocket created by the reconnect timer's callback has just opened, with a
\* connection-status indicator on the deck, and the request was sent.
C15_Witness ==
    /\ op.name = "open"
    /\ createdBy = "timer"
    /\ \E h \in StatusHandles : <<GLOBAL, h>> \in registry /\ statusCtl[h].isConnected
    /\ Len(sent) = 1

(***************************************************************************)
(* Command properties                                                      *)
(***************************************************************************)
\* The members of a serialized command with the given path.
MembersAt(text, path) == {i \in 1 .. Len(text) : text[i][1] = path}

\* The JSON literal the command must carry for a tri-state choice.
LiteralOf(choice) ==
    IF choice = "SetTrue" THEN "true"
    ELSE IF choice = "SetFalse" THEN "false"
    ELSE "\"toggle\""

\* C16: the serialized kSetStationState command carries its type tag and the
\* frequency, carries each of tx, rx and xc exactly when the choice for it is not
\* Unspecified, and then as true, false or "toggle" for Set(true), Set(false) and
\* Toggle.
C16_SetStationStateSerialization ==
    [][(op'.name = "setStationState" /\ IsOpen)
        => /\ Len(sent') = 1
           /\ LET text == sent'[1]
                  choice == [m \in {"tx", "rx", "xc"} |->
                                IF m = "tx" THEN op'.arg.tx
                                ELSE IF m = "rx" THEN op'.arg.rx ELSE op'.arg.xc]
              IN /\ \E i \in MembersAt(text, "type") : text[i][2] = "\"kSetStationState\""
                 /\ Cardinality(MembersAt(text, "value.frequency")) = 1
                 /\ \A i \in MembersAt(text, "value.frequency") :
                      text[i][2] = ToString(op'.arg.frequency)
                 /\ \A m \in {"tx", "rx", "xc"} :
                      IF choice[m] = "Unspecified"
                      THEN MembersAt(text, "value." \o m) = {}
                      ELSE /\ Cardinality(MembersAt(text, "value." \o m)) = 1
                           /\ \A i \in MembersAt(text, "value." \o m) :
                                text[i][2] = LiteralOf(choice[m])]_vars

\* The command for 121.5 MHz with tx Toggle, rx Unspecified and xc Set(false) has just
\* been sent on the open websocket.
C16_Witness ==
    /\ op.name = "setStationState"
    /\ op.arg.frequency = 121500000
    /\ op.arg.tx = "Toggle" /\ op.arg.rx = "Unspecified" /\ op.arg.xc = "SetFalse"
    /\ sent = <<<<<<"type", "\"kSetStationState\"">>, <<"value.frequency", "121500000">>,
                 <<"value.tx", "\"toggle\"">>, <<"value.xc", "false">>>>>>

(***************************************************************************)
(* Settle timer properties                                                 *)
(***************************************************************************)
\* C17: once an indicator has disappeared, no callback of a settle timer armed for it
\* runs: the debounced settings update of a station-volume dial only ever runs for
\* a dial that is on the deck.
C17_NoCallbackAfterDisappear ==
    [][op'.name = "debouncedUpdate" => op'.arg[1] \in visible]_vars

\* The main-volume controller h was on the deck before and after the step and the
\* step changed its state: its volume or connected flag, its settings, or a reset.
Mutated(h) ==
    /\ h \in visible /\ h \in visible'
    /\ \/ volumeCtl'[h].volume # volumeCtl[h].volume
       \/ volumeCtl'[h].isConnected # volumeCtl[h].isConnected
       \/ op'.name = "setVolumeSettings"
       \/ h \in resets'

\* The step changed nothing but the volume of h, through the volume setter.
VolumeSet(h) ==
    /\ op'.name = "setVolume"
    /\ volumeCtl'[h].volume # volumeCtl[h].volume

\* The display of h was refreshed during the step.
Drew(h) == volumeCtl'[h] # volumeCtl[h] /\ volumeCtl'[h].drawn

\* At most one timeout of refreshDisplay is pending per main-volume controller.
OneSettleTimer == \A h \in VolumeHandles : volumeCtl[h].pending <= 1

\* C18 as stated: every state mutation of a main-volume controller (re)arms its
\* single settle timer and refreshes nothing synchronously; the display is refreshed
\* only when the timer expires; at most one settle timer is pending per controller.
C18_EveryMutationArmsTimer ==
    /\ []OneSettleTimer
    /\ [][\A h \in VolumeHandles :
            /\ Mutated(h) => (volumeCtl'[h].pending = 1 /\ ~volumeCtl'[h].drawn)
            /\ Drew(h) => op'.name = "settle"]_vars

\* C18, amended: a settings change, a change of isConnected and reset() (re)arm the
\* controller's single settle timer and refresh nothing synchronously; a change of
\* the volume refreshes the display inside the setter and leaves the timer as it is;
\* the display is refreshed only by the volume setter and by the timer's expiry; at
\* most one settle timer is pending per controller.
C18_MutationsArmTimerExceptVolume ==
    /\ []OneSettleTimer
    /\ [][\A h \in VolumeHandles :
            /\ (Mutated(h) /\ ~VolumeSet(h))
                    => (volumeCtl'[h].pending = 1 /\ ~volumeCtl'[h].drawn)
            /\ VolumeSet(h)
                    => (volumeCtl'[h].drawn /\ volumeCtl'[h].pending = volumeCtl[h].pending)
            /\ Drew(h) => (op'.name = "settle" \/ VolumeSet(h))]_vars

\* The volume of a controller whose settle timer is pending has just been changed:
\* the display was refreshed at once and the timer is still pending.
C18_Witness ==
    /\ op.name = "setVolume"
    /\ \E h \in VolumeHandles :
         /\ op.arg[1] = h
         /\ op.arg[3].volume # volumeCtl[h].volume
         /\ op.arg[3].pending = 1
         /\ volumeCtl[h].pending = 1
         /\ volumeCtl[h].drawn

\* C19: the settings most recently received by a station-volume dial on the deck are
\* either applied (the dial is registered under their callsign) or still to be
\* applied by a pending settle timer, whatever settings other dials receive in the
\* meantime.
C19_EachDialKeepsItsUpdate ==
    \A d \in DialHandles \cap visible :
        \/ <<configured[d], d>> \in registry
        \/ debouncedUpdate = [action |-> d, settings |-> configured[d]]

(***************************************************************************)
(* Inbound events                                                          *)
(***************************************************************************)
\* The event kind published for a frame's type tag.
EventKind(tag) ==
    CASE tag = "kFrequencyStateUpdate" -> "frequencyUpdate"
      [] tag = "kStationStates" -> "stationStates"
      [] tag = "kStationStateUpdate" -> "stationStateUpdate"
      [] tag = "kTxBegin" -> "txBegin"
      [] tag = "kTxEnd" -> "txEnd"
      [] tag = "kRxBegin" -> "rxBegin"
      [] tag = "kRxEnd" -> "rxEnd"

\* C20: a well-formed frame with one of the seven known type tags makes the manager
\* emit exactly one event, of the kind of the tag and carrying the decoded value.
C20_KnownFrameEmitsOneEvent ==
    [][(op'.name = "message" /\ op'.arg.json /\ op'.arg.type \in KnownTags)
        => emitted' = <<Event(EventKind(op'.arg.type), JSONparse(op'.arg).data.value)>>]_vars


\* The value is not undefined.
Defined(v) == v.kind # "undefined"

\* C24: assigning the letter L2 to a controller whose letter is L1 sets isUpdated
\* to true if and only if L1 and L2 are both defined and differ, and to false
\* otherwise; afterwards the stored letter is L2.
C24_LetterAssignmentSetsIsUpdated ==
    [][op'.name = "atisSetLetter" =>
          LET a == op'.arg[1]
              L1 == op'.arg[3].letter
              L2 == op'.arg[2]
          IN /\ atisCtl'[a].isUpdated = (Defined(L1) /\ Defined(L2) /\ L1 # L2)
             /\ atisCtl'[a].letter = L2]_vars


\* The main-volume dial shows the state of its controller.
VolumeUpToDate(h) ==
    volumeCtl[h].shown =
        [isConnected |-> volumeCtl[h].isConnected, volume |-> volumeCtl[h].volume]

\* The ATIS-letter indicator shows the state of its controller.
AtisUpToDate(a) == atisCtl[a] = AtisLetterController_refresh(atisCtl[a])

\* Once no settle timer of a controller is pending, its display shows its state.
Settled ==
    /\ \A h \in VolumeHandles \cap visible : volumeCtl[h].pending = 0 => VolumeUpToDate(h)
    /\ \A a \in AtisHandles :
           atisCtl[a].exists /\ atisCtl[a].pending = 0 => AtisUpToDate(a)

\* C21: after a burst of mutations on a debounced controller a refresh is
\* eventually performed and it renders the state the last mutation left: a pending
\* settle timer leads to a display that shows the controller's state, and the display
\* never shows an older state once no settle timer is pending.
C21_LastWriteWins ==
    /\ []Settled
    /\ \A h \in VolumeHandles :
           (h \in visible /\ volumeCtl[h].pending > 0)
               ~> (volumeCtl[h].pending = 0 /\ VolumeUpToDate(h))
    /\ \A a \in AtisHandles :
           (atisCtl[a].exists /\ atisCtl[a].pending > 0)
               ~> (atisCtl[a].pending = 0 /\ AtisUpToDate(a))

\* The settle timer of a main-volume controller expired after its connection state
\* was changed, and drew the state the change left.
C21_Witness ==
    /\ op.name = "settle"
    /\ \E h \in VolumeHandles \cap visible :
           /\ op.arg[1] = h
           /\ volumeCtl[h].pending = 0
           /\ volumeCtl[h].isConnected
           /\ volumeCtl[h].shown.isConnected

\* reset() applied to the controllers as they are gives the disconnected defaults,
\* and applied again changes nothing.
ResetGivesDefaults ==
    /\ \A h \in StatusHandles :
           LET r == TrackAudioStatusController_reset(statusCtl[h])
           IN /\ ~r.isConnected /\ ~r.isVoiceConnected
              /\ TrackAudioStatusController_reset(r) = r
    /\ \A h \in VolumeHandles :
           LET r == MainVolumeController_reset(volumeCtl[h])
           IN /\ ~r.isConnected /\ r.volume = 100
              /\ MainVolumeController_reset(r) = r
    /\ \A a \in AtisHandles :
           LET r == AtisLetterController_reset(atisCtl[a])
           IN /\ r.letter = JsUndefined /\ ~r.isUpdated /\ ~r.isUnavailable
              /\ AtisLetterController_reset(r) = r

\* C22: from any reachable state reset() brings a controller to its disconnected
\* default (connection-status: not connected, no voice; main volume: not connected,
\* volume 100; ATIS letter: letter undefined, not updated, not unavailable), and
\* reset() called twice gives the same state as reset() called once.
C22_ResetGivesDefaults ==
    /\ []ResetGivesDefaults
    /\ [][/\ op'.name = "statusReset" =>
                 /\ ~statusCtl'[op'.arg[1]].isConnected
                 /\ ~statusCtl'[op'.arg[1]].isVoiceConnected
          /\ op'.name = "volumeReset" =>
                 /\ ~volumeCtl'[op'.arg[1]].isConnected
                 /\ volumeCtl'[op'.arg[1]].volume = 100
          /\ op'.name = "atisReset" =>
                 /\ atisCtl'[op'.arg[1]].letter = JsUndefined
                 /\ ~atisCtl'[op'.arg[1]].isUpdated
                 /\ ~atisCtl'[op'.arg[1]].isUnavailable]_vars

\* reset() ran on a connected main-volume controller whose volume was not the default.
C22_Witness ==
    /\ op.name = "volumeReset"
    /\ op.arg[3].isConnected
    /\ op.arg[3].volume # DefaultVolume
    /\ volumeCtl[op.arg[1]].volume = DefaultVolume


\* At most one auto-clear timeout per controller is pending.
OneAutoClearTimeout == \A a \in AtisHandles : atisCtl[a].timeouts <= 1

\* C25: when isUpdated becomes true on a controller with autoClear enabled, an
\* auto-clear timeout is pending; it fires unless a further assignment to letter or
\* isUpdated cancels it, and isUpdated is false when it has fired.  Every assignment
\* to isUpdated cancels the pending auto-clear timeout, so at most one auto-clear
\* timeout per controller is pending at any time.
C25_AutoClear ==
    /\ []OneAutoClearTimeout
    /\ [][/\ op'.name = "atisSetIsUpdated" =>
                 LET a == op'.arg[1]
                     arm == op'.arg[2] /\ AtisLetterController_autoClear(op'.arg[3])
                 IN /\ atisCtl'[a].isUpdated = op'.arg[2]
                    /\ atisCtl'[a].timeouts = IF arm THEN 1 ELSE 0
          /\ op'.name = "atisSetLetter" =>
                 LET a == op'.arg[1]
                 IN atisCtl'[a].timeouts =
                        IF /\ atisCtl'[a].isUpdated
                           /\ AtisLetterController_autoClear(op'.arg[3])
                        THEN 1 ELSE 0
          /\ op'.name = "atisAutoClear" =>
                 /\ ~atisCtl'[op'.arg[1]].isUpdated
                 /\ atisCtl'[op'.arg[1]].timeouts = 0]_vars
    /\ \A a \in AtisHandles :
           (atisCtl[a].isUpdated /\ atisCtl[a].timeouts > 0)
               ~> (~atisCtl[a].isUpdated \/ atisCtl[a].timeouts = 0)

\* The auto-clear timeout fired on a controller that showed an update, and cleared it.
C25_Witness ==
    /\ op.name = "atisAutoClear"
    /\ op.arg[3].isUpdated
    /\ op.arg[3].timeouts = 1
    /\ ~atisCtl[op.arg[1]].isUpdated

\* The image refreshImage() draws for the controller's flags.
ImageOf(c) ==
    IF c.isVoiceConnected THEN "voiceConnected"
    ELSE IF c.isConnected THEN "connected" ELSE "notConnected"

\* The last rendered image of every connection-status controller is the one for its
\* flags.
ImageFollowsFlags == \A h \in StatusHandles : statusCtl[h].image = ImageOf(statusCtl[h])

\* C30: in every reachable state of a connection-status controller isVoiceConnected
\* is true only if isConnected is true, and the last rendered image corresponds to
\* the current flags.
C30_VoiceOnlyWhenConnected ==
    /\ \A h \in StatusHandles : statusCtl[h].isVoiceConnected => statusCtl[h].isConnected
    /\ ImageFollowsFlags


\* The websockets that are connecting or open.
LiveSockets == {s \in SocketIds : readyState[s] \in {"CONNECTING", "OPEN"}}

\* C23: handleTrackAudioStatusAdded(count) calls connect() if and only if count = 1
\* (with any other count the connection is left as it is; with count = 1 a websocket
\* is created unless the manager's websocket is not closed yet), for every count it
\* then hands the manager's connection state to the connection-status indicators,
\* and there is never a second websocket connecting or open.
C23_ConnectOnFirstIndicator ==
    /\ [](Cardinality(LiveSockets) <= 1)
    /\ [][op'.name \in {"trackAudioStatusAdded", "statusWillAppear"} =>
              LET count == IF op'.name = "trackAudioStatusAdded" THEN op'.arg[1]
                           ELSE Cardinality(TrackAudioStatusControllers(registry'))
                  live == socket # Null /\ readyState[socket] # "CLOSED"
              IN /\ count # 1 \/ live =>
                     UNCHANGED <<socket, readyState, reconnectTimer, timers>>
                 /\ count = 1 /\ ~live =>
                     /\ socket' # Null
                     /\ readyState'[socket'] = "CONNECTING"
                     /\ reconnectTimer' = Null
                     /\ timers' = ClearTimeout(timers, reconnectTimer)
                 /\ \A h \in TrackAudioStatusControllers(registry') :
                        /\ calls'[h] = <<StatusEvent(IsOpen')>>
                        /\ statusCtl'[h].isConnected = IsOpen']_vars

\* The handler ran for an indicator that is the only one while the manager's
\* websocket was connecting or open, and handed the state to a registered indicator.
C23_Witness ==
    /\ op.name = "trackAudioStatusAdded"
    /\ op.arg[1] = 1
    /\ op.pre \in {"CONNECTING", "OPEN"}
    /\ \E h \in StatusHandles : calls[h] # <<>>


\* A websocket event is waiting to be delivered: an "error" or "close" event due in
\* this tick, or the "close" event of a websocket that is closing.
EventWaiting == ~NoDue \/ \E s \in SocketIds : readyState[s] = "CLOSING"

\* C27: whenever no websocket event is waiting to be delivered, the lifecycle event
\* emitted most recently is "connected" if and only if the manager's websocket is
\* open.
C27_LastEventMatchesTransport ==
    ~EventWaiting => (lastLifecycle = "connected" <=> IsOpen)

\* The websockets with the manager's handlers attached that are not closed; connect()
\* attaches the handlers to every websocket it creates and nothing detaches them.
AttachedSockets == {s \in SocketIds : readyState[s] \in {"CONNECTING", "OPEN", "CLOSING"}}

\* C28: at any time at most one websocket created by the manager is connecting, open
\* or closing with its event handlers attached.
C28_OneAttachedTransport == Cardinality(AttachedSockets) <= 1


\* C26: after any sequence of start(), stop() and refresh() calls at most one
\* polling interval is active; start() and refresh() leave exactly the interval they
\* set up, whatever was active before; stop() leaves none and a second stop()
\* changes nothing; a failed fetch emits no event and leaves the polling interval
\* as it is.
C26_OnePollingInterval ==
    /\ [](Cardinality(intervals) <= 1)
    /\ [][/\ op'.name \in {"pollerStart", "pollerRefresh"} =>
                 /\ Cardinality(intervals') = 1
                 /\ \A i \in intervals' : i.id = intervalId' /\ i \notin intervals
          /\ op'.name = "pollerStop" =>
                 /\ intervals' = {}
                 /\ {i \in intervals' : i.id # intervalId'} = intervals'
          /\ op'.name = "fetchFails" =>
                 /\ emitted' = <<>>
                 /\ intervals' = intervals]_vars

\* start() was called while the poller was polling, and one interval is active.
C26_Witness ==
    /\ op.name = "pollerStart"
    /\ op.arg[1] # {}
    /\ Cardinality(intervals) = 1


\* C29: every key-up invokes the long-press or the short-press handler for its
\* button, chosen by the time elapsed since that same button's own most recent
\* key-down.
C29_PressMeasuredPerButton ==
    [][op'.name = "keyUp" => op'.arg[2] = PressKind(downAt[op'.arg[1]])]_vars


\* An auto-clear timeout is pending only on a controller whose isUpdated is true.
TimeoutOnlyWhileUpdated ==
    \A a \in AtisHandles : atisCtl[a].timeouts > 0 => atisCtl[a].isUpdated

\* C31: in every reachable state of an AtisLetterController an auto-clear timeout
\* is pending only while isUpdated is true, and no auto-clear timeout is pending
\* after reset().
C31_TimeoutOnlyWhileUpdated ==
    /\ []TimeoutOnlyWhileUpdated
    /\ [][op'.name = "atisReset" => atisCtl'[op'.arg[1]].timeouts = 0]_vars

\* The same, for every step but reset(): the setters and the timeout's callback
\* keep an auto-clear timeout pending only while isUpdated is true.
SettersKeepTimeoutOnlyWhileUpdated ==
    [][op'.name # "atisReset" /\ TimeoutOnlyWhileUpdated => TimeoutOnlyWhileUpdated']_vars

\* C32: after stop() has returned and until start() is called again (no polling
\* interval is active: start() and refresh() always leave one active and only
\* stop() clears it), no vatsimDataReceived event is emitted, also when a fetch
\* was awaiting its response when stop() was called.
C32_NoEventAfterStop ==
    [][op'.name = "fetchSucceeds" /\ intervals = {} => emitted' = <<>>]_vars

\* No polling interval is active exactly from a stop() to the next start(): start()
\* and refresh() leave one active, only stop() clears it, and before the first
\* start() no fetch awaits its response.
NoIntervalMeansStopped ==
    /\ [](intervalId = Null => fetches = 0 /\ intervals = {})
    /\ [][/\ op'.name \in {"pollerStart", "pollerRefresh"} => intervals' # {}
          /\ intervals # {} /\ intervals' = {} => op'.name = "pollerStop"
          /\ op'.name = "pollerStop" => intervals' = {}]_vars

====
